---- MODULE Spec2Model ----
(***************************************************************************)
(* The unfinished download chunk (UDC) of modules/renter/downloadchunk.go  *)
(* together with the tasks that act on it: the workers of the renter, the  *)
(* recovery task threadedRecoverLogicalData, the parent download and the   *)
(* memory manager.                                                         *)
(*                                                                         *)
(* Every action is one critical section of udc.mu (or of download.mu) or   *)
(* one step a task takes without a lock; the position of every task is    *)
(* kept in workers (one entry per worker) and in recovery.                 *)
(***************************************************************************)
EXTENDS Integers, Sequences, FiniteSets, TLC

(***************************************************************************)
(* Bounds of the model.                                                    *)
(***************************************************************************)
MinPieces == 2
NumPieces == 3
NumWorkers == 4
MaxOverdrive == 1
PieceSize == 4
SegmentSize == 2
FetchOffset == 5
FetchLength == 3
WriteOffset == 7
MaxRequests == 4
MaxRangeMinPieces == 3
MaxSegmentSize == 8
MaxRangeOffset == 10
MaxRangeLength == 20
RangeChunkSize == 120
MaxWalletCalls == 4
MaxUnlockCalls == 3
NumChunks == 3

Workers == 1 .. NumWorkers
Pieces == 1 .. NumPieces

\* The erasure coded chunk: chunkSize = MinPieces x pieceSize.
ChunkSize == MinPieces * PieceSize

\* The fetch range the download asks of the chunk, <<staticFetchOffset,
\* staticFetchLength, staticWriteOffset>>: a range inside the chunk that
\* starts past its first recovered segment and ends at its last byte.
FetchRanges ==
    {r \in {FetchOffset} \X {FetchLength} \X {WriteOffset} :
        r[1] + r[2] <= ChunkSize}

\* staticChunkMap: the piece of the chunk each worker's host stores. With
\* more workers than pieces two hosts store the same piece.
staticChunkMap(wk) == ((wk - 1) % NumPieces) + 1

\* An empty slot of physicalChunkData.
NoPiece == [index |-> 0, startSegment |-> 0, numSegments |-> 0]

\* The memory the engine requests for a chunk: room for MinPieces pieces
\* and for the overdrive pieces.
memoryRequired(overdrive) == (MinPieces + overdrive) * PieceSize

\* The byte budget of the memory manager.
MemoryTotal == memoryRequired(MaxOverdrive)

Range(s) == {s[i] : i \in DOMAIN s}

RECURSIVE Count(_, _)
\* The number of entries of the boolean array f over the indices S that
\* are set.
Count(f, S) ==
    IF S = {} THEN 0
    ELSE LET i == CHOOSE x \in S : TRUE
         IN  (IF f[i] THEN 1 ELSE 0) + Count(f, S \ {i})

VARIABLES
    udc,        \* the fields of the unfinishedDownloadChunk
    download,   \* the parent download
    mm,         \* the memory manager
    workers,    \* workers[wk]: where worker wk is with this chunk
    recovery,   \* where threadedRecoverLogicalData is
    stage,      \* "init" until the chunk's memory is granted
    hist,       \* what has been called so far
    locks,      \* the lock events of the step just taken, in order,
                \* kept when hist.recordLocks
    range,      \* a fetch range and erasure coder, and what bytesToRecover
                \* and recoveredDataOffset return for them
    wallet,     \* the wallet of the wallet tests and the calls made of it
    unlocking,  \* the Unlock calls that run at the same time on the wallet
    chunks      \* the chunks of a download of several chunks

vars ==
    <<udc, download, mm, workers, recovery, stage, hist, locks, range, wallet,
      unlocking, chunks>>

\* All of the state as one value: the operations of the chunk are
\* functions from such a value to the value they leave behind.
World ==
    [udc |-> udc, download |-> download, mm |-> mm, workers |-> workers,
     recovery |-> recovery, hist |-> hist, locks |-> <<>>]

Commit(w) ==
    /\ udc' = w.udc
    /\ download' = w.download
    /\ mm' = w.mm
    /\ workers' = w.workers
    /\ recovery' = w.recovery
    /\ hist' = w.hist
    /\ locks' = IF w.hist.recordLocks THEN w.locks ELSE <<>>
    /\ range' = range
    /\ wallet' = wallet
    /\ unlocking' = unlocking
    /\ chunks' = chunks

(***************************************************************************)
(* The lock events of a task. A step is taken by one task, which holds no  *)
(* lock when it begins; locks lists, in program order, the mutexes the     *)
(* task locks and unlocks during the step, the calls it makes into the     *)
(* memory manager and the worker jobs it starts. by names the function     *)
(* the statement stands in.                                                *)
(***************************************************************************)
Lock(mu, by) == [op |-> "lock", mu |-> mu, by |-> by]
Unlock(mu, by) == [op |-> "unlock", mu |-> mu, by |-> by]
Call(mu, by) == [op |-> "call", mu |-> mu, by |-> by]
Go(mu, by) == [op |-> "go", mu |-> mu, by |-> by]

\* download.managedFail takes download.mu for itself.
managedFailLocks ==
    <<Lock("download", "managedFail"), Unlock("download", "managedFail")>>

\* memoryManager.Return and memoryManager.Request take the memory
\* manager's lock for themselves.
ReturnLocks ==
    <<Lock("memoryManager", "Return"), Unlock("memoryManager", "Return")>>
RequestLocks ==
    <<Lock("memoryManager", "Request"), Unlock("memoryManager", "Request")>>

\* A worker takes its own lock to take the next chunk off its queue.
WorkerQueueLocks ==
    <<Lock("worker", "queue"), Unlock("worker", "queue")>>

\* A worker handles a chunk, or the outcome of its fetch, under udc.mu.
WorkerChunkLocks ==
    <<Lock("udc", "worker"), Unlock("udc", "worker")>>

(***************************************************************************)
(* The parent download and the memory manager.                             *)
(***************************************************************************)

\* download.managedFail: the first error completes the download, later
\* ones do not overwrite it.
managedFail(d, err) ==
    IF d.complete THEN d
    ELSE [d EXCEPT !.complete = TRUE, !.err = err]

\* download.markComplete.
markComplete(d) == [d EXCEPT !.complete = TRUE]

\* The sizes of the requests made of the memory manager besides those of
\* the chunk: nothing, a piece, all but a piece, everything, and more
\* than the manager has.
RequestSizes ==
    {0, PieceSize, MemoryTotal - PieceSize, MemoryTotal,
     MemoryTotal + PieceSize}

\* Whether the request at the head of its queue can be granted: its bytes
\* can be subtracted from available, or it is a low priority request for
\* more than total and all memory is available.
Fits(m, amount, priority) ==
    \/ amount <= m.available
    \/ priority = "low" /\ amount > MemoryTotal /\ m.available = MemoryTotal

\* The request r is granted: its bytes are subtracted from available; of
\* a request for more than total, what available cannot cover is kept as
\* underflow.
Grant(m, r) ==
    [m EXCEPT !.available = IF r.amount <= @ THEN @ - r.amount ELSE 0,
              !.underflow = IF r.amount <= m.available THEN @
                            ELSE @ + (r.amount - m.available),
              !.granted = @ \cup {r}]

RECURSIVE Serve_LowPastParkedHigh(_)
\* The waiters are woken, the low queue looked at whenever the high queue
\* is through, empty or not.
Serve_LowPastParkedHigh(m) ==
    IF m.high # <<>> /\ Fits(m, Head(m.high).amount, "high")
    THEN Serve_LowPastParkedHigh(
             [Grant(m, Head(m.high)) EXCEPT !.high = Tail(@)])
    ELSE IF m.low # <<>> /\ Fits(m, Head(m.low).amount, "low")
    THEN Serve_LowPastParkedHigh(
             [Grant(m, Head(m.low)) EXCEPT !.low = Tail(@)])
    ELSE m

RECURSIVE Serve(_)
\* The waiters are woken: the waiters at the head of the high queue are
\* served until it is empty or its head does not fit; the low queue is
\* served, in the same way, once no high priority waiter is left.
Serve(m) ==
    IF m.high # <<>>
    THEN IF Fits(m, Head(m.high).amount, "high")
         THEN Serve([Grant(m, Head(m.high)) EXCEPT !.high = Tail(@)])
         ELSE m
    ELSE IF m.low # <<>> /\ Fits(m, Head(m.low).amount, "low")
    THEN Serve([Grant(m, Head(m.low)) EXCEPT !.low = Tail(@)])
    ELSE m

\* memoryManager.Return(n): the bytes are added back, those owed to a
\* request for more than total first, and the waiters are woken.
Return(m, n) ==
    LET owed == IF n <= m.underflow THEN n ELSE m.underflow
    IN  Serve([m EXCEPT !.underflow = @ - owed,
                        !.available = @ + (n - owed)])

\* memoryManager.Request(n, priority), once it is granted.
Request(m, n) == [m EXCEPT !.available = @ - n]

\* memoryManager.Request(r.amount, r.priority) of the request r as it is
\* called: a request for zero bytes returns at once; a request that fits
\* with no waiter of its class ahead of it, and for a low priority
\* request no high priority waiter, is granted at once; any other
\* request waits at the end of the queue of its class.
RequestCall(m, r) ==
    LET m1 == [m EXCEPT !.issued = @ + 1]
    IN  IF r.amount = 0 THEN m1
        ELSE IF r.priority = "high"
        THEN IF m.high = <<>> /\ Fits(m, r.amount, "high")
             THEN Grant(m1, r)
             ELSE [m1 EXCEPT !.high = Append(@, r)]
        ELSE IF m.high = <<>> /\ m.low = <<>> /\ Fits(m, r.amount, "low")
             THEN Grant(m1, r)
             ELSE [m1 EXCEPT !.low = Append(@, r)]

(***************************************************************************)
(* The erasure coder and the range arithmetic.                             *)
(***************************************************************************)

\* erasureCode.SupportsPartialEncoding(): <<segmentSize, supportsPartial>>.
SupportsPartialEncoding(rs) == <<rs.segmentSize, rs.partial>>

\* segmentsForRecovery that leaves out the segment the range ends in.
segmentsForRecovery_FloorEnd(chunkFetchOffset, chunkFetchLength, rs) ==
    IF ~SupportsPartialEncoding(rs)[2] THEN <<0, PieceSize \div SegmentSize>>
    ELSE
    LET recoveredSegmentSize == rs.minPieces * SupportsPartialEncoding(rs)[1]
        startSegment == chunkFetchOffset \div recoveredSegmentSize
        endSegment ==
            (chunkFetchOffset + chunkFetchLength) \div recoveredSegmentSize
    IN  <<startSegment, endSegment - startSegment>>

\* segmentsForRecovery: <<startSegment, numSegments>>, the segments of the
\* pieces that hold the fetch range; all of them without partial encoding.
segmentsForRecovery(chunkFetchOffset, chunkFetchLength, rs) ==
    IF ~SupportsPartialEncoding(rs)[2] THEN <<0, PieceSize \div SegmentSize>>
    ELSE
    LET recoveredSegmentSize == rs.minPieces * SupportsPartialEncoding(rs)[1]
        startSegment == chunkFetchOffset \div recoveredSegmentSize
        endFloor == (chunkFetchOffset + chunkFetchLength) \div recoveredSegmentSize
        endSegment ==
            IF (chunkFetchOffset + chunkFetchLength) % recoveredSegmentSize # 0
            THEN endFloor + 1 ELSE endFloor
    IN  <<startSegment, endSegment - startSegment>>

\* bytesToRecover that counts the segments of the fetch length alone.
bytesToRecover_LengthOnly(chunkFetchOffset, chunkFetchLength, chunkSize, rs) ==
    IF ~SupportsPartialEncoding(rs)[2] THEN chunkSize
    ELSE LET recoveredSegmentSize ==
                 rs.minPieces * SupportsPartialEncoding(rs)[1]
             numSegments == segmentsForRecovery(0, chunkFetchLength, rs)[2]
         IN  numSegments * recoveredSegmentSize

bytesToRecover(chunkFetchOffset, chunkFetchLength, chunkSize, rs) ==
    IF ~SupportsPartialEncoding(rs)[2] THEN chunkSize
    ELSE LET recoveredSegmentSize ==
                 rs.minPieces * SupportsPartialEncoding(rs)[1]
             numSegments ==
                 segmentsForRecovery(chunkFetchOffset, chunkFetchLength, rs)[2]
         IN  numSegments * recoveredSegmentSize

\* recoveredDataOffset that forgets to reduce the offset to the recovered
\* segments.
recoveredDataOffset_NoMod(chunkFetchOffset, rs) == chunkFetchOffset

recoveredDataOffset(chunkFetchOffset, rs) ==
    IF ~SupportsPartialEncoding(rs)[2] THEN chunkFetchOffset
    ELSE LET recoveredSegmentSize ==
                 rs.minPieces * SupportsPartialEncoding(rs)[1]
         IN  chunkFetchOffset % recoveredSegmentSize

\* The decrypted bytes a worker fetches for piece i of the chunk: the
\* slice of the piece that holds the segments of the fetch range.
PieceData(i, u) ==
    LET seg == segmentsForRecovery(u.staticFetchOffset, u.staticFetchLength,
                                   u.erasureCode)
    IN  [index |-> i, startSegment |-> seg[1], numSegments |-> seg[2]]

\* The pieces of physicalChunkData the erasure coder can decode from:
\* those that lie at their own index.
UsablePieces(pieces) ==
    {i \in DOMAIN pieces : pieces[i] # NoPiece /\ pieces[i].index = i}

\* erasureCode.Recover over the pieces: the plaintext positions of the
\* chunk that the decoded bytes hold, in order; nothing when fewer than
\* MinPieces pieces are usable or the pieces are of different segments.
Recover(pieces, rs) ==
    LET usable == UsablePieces(pieces)
        one == CHOOSE i \in usable : TRUE
        recoveredSegmentSize == rs.minPieces * SupportsPartialEncoding(rs)[1]
        first == IF SupportsPartialEncoding(rs)[2]
                 THEN pieces[one].startSegment * recoveredSegmentSize ELSE 0
        n == IF SupportsPartialEncoding(rs)[2]
             THEN pieces[one].numSegments * recoveredSegmentSize ELSE ChunkSize
    IN  IF \/ Cardinality(usable) < MinPieces
           \/ \E i \in DOMAIN pieces : pieces[i] # NoPiece /\ i \notin usable
           \/ \E i \in usable :
                  \/ pieces[i].startSegment # pieces[one].startSegment
                  \/ pieces[i].numSegments # pieces[one].numSegments
        THEN <<>>
        ELSE [k \in 1 .. n |-> first + k - 1]

\* destination.WritePieces(ec, pieces, dataOffset, writeOffset, length):
\* what the destination receives, the bytes
\* [dataOffset, dataOffset + length) of the recovered data at writeOffset.
WritePieces(rs, pieces, dataOffset, writeOffset, length) ==
    LET recovered == Recover(pieces, rs)
    IN  [pieces |-> pieces, dataOffset |-> dataOffset,
         writeOffset |-> writeOffset, length |-> length,
         bytes |-> IF dataOffset + length <= Len(recovered)
                   THEN SubSeq(recovered, dataOffset + 1, dataOffset + length)
                   ELSE <<>>]

(***************************************************************************)
(* The operations of the unfinishedDownloadChunk. Each takes the state w   *)
(* and gives the state it leaves.                                          *)
(***************************************************************************)

\* fail: the chunk is failed, the physical chunk memory wiped, the
\* download failed and the destination dropped.
fail(w, err) ==
    [w EXCEPT !.udc.failed = TRUE,
              !.udc.recoveryComplete = TRUE,
              !.udc.physicalChunkData = [i \in DOMAIN @ |-> NoPiece],
              !.download = managedFail(@, err),
              !.udc.destination = "nil",
              !.hist.failCalls = @ + 1,
              !.hist.failErr = err,
              !.locks = @ \o managedFailLocks]

\* returnMemory without the case of a completed recovery.
returnMemory_NoRecoveryCase(w) ==
    LET u == w.udc
        maxWorkers == (u.workersRemaining + u.piecesCompleted) * PieceSize
        maxMemory ==
            IF u.piecesCompleted >= MinPieces
            THEN (u.piecesCompleted + u.piecesRegistered) * PieceSize
            ELSE maxWorkers
    IN  IF u.memoryAllocated > maxMemory
        THEN [w EXCEPT !.mm = Return(@, u.memoryAllocated - maxMemory),
                       !.hist.returned = @ + (u.memoryAllocated - maxMemory),
                       !.udc.memoryAllocated = maxMemory,
                       !.locks = (@ \o <<Call("memoryManager", "returnMemory")>>)
                                     \o ReturnLocks]
        ELSE w

\* returnMemory that returns the excess and forgets to lower
\* memoryAllocated.
returnMemory_KeepAllocated(w) ==
    LET u == w.udc
        maxWorkers == (u.workersRemaining + u.piecesCompleted) * PieceSize
        maxPieces ==
            IF u.piecesCompleted >= MinPieces
            THEN (u.piecesCompleted + u.piecesRegistered) * PieceSize
            ELSE maxWorkers
        maxMemory ==
            IF u.recoveryComplete THEN u.piecesRegistered * PieceSize
            ELSE maxPieces
    IN  IF u.memoryAllocated > maxMemory
        THEN [w EXCEPT !.mm = Return(@, u.memoryAllocated - maxMemory),
                       !.hist.returned = @ + (u.memoryAllocated - maxMemory),
                       !.locks = (@ \o <<Call("memoryManager", "returnMemory")>>)
                                     \o ReturnLocks]
        ELSE w

\* returnMemory that forgets the registered pieces once enough pieces
\* have completed.
returnMemory_ForgetRegistered(w) ==
    LET u == w.udc
        maxWorkers == (u.workersRemaining + u.piecesCompleted) * PieceSize
        maxPieces ==
            IF u.piecesCompleted >= MinPieces
            THEN u.piecesCompleted * PieceSize
            ELSE maxWorkers
        maxMemory ==
            IF u.recoveryComplete THEN u.piecesRegistered * PieceSize
            ELSE maxPieces
    IN  IF u.memoryAllocated > maxMemory
        THEN [w EXCEPT !.mm = Return(@, u.memoryAllocated - maxMemory),
                       !.hist.returned = @ + (u.memoryAllocated - maxMemory),
                       !.udc.memoryAllocated = maxMemory,
                       !.locks = (@ \o <<Call("memoryManager", "returnMemory")>>)
                                     \o ReturnLocks]
        ELSE w

\* returnMemory: hand back what the chunk holds above maxMemory.
returnMemory(w) ==
    LET u == w.udc
        maxWorkers == (u.workersRemaining + u.piecesCompleted) * PieceSize
        maxPieces ==
            IF u.piecesCompleted >= MinPieces
            THEN (u.piecesCompleted + u.piecesRegistered) * PieceSize
            ELSE maxWorkers
        maxMemory ==
            IF u.recoveryComplete THEN u.piecesRegistered * PieceSize
            ELSE maxPieces
    IN  IF u.memoryAllocated > maxMemory
        THEN [w EXCEPT !.mm = Return(@, u.memoryAllocated - maxMemory),
                       !.hist.returned = @ + (u.memoryAllocated - maxMemory),
                       !.udc.memoryAllocated = maxMemory,
                       !.locks = (@ \o <<Call("memoryManager", "returnMemory")>>)
                                     \o ReturnLocks]
        ELSE w

\* The check that fails a chunk whose remaining workers and completed
\* pieces just reach MinPieces.
newlyFailed_OffByOne(w) ==
    IF /\ w.udc.workersRemaining + w.udc.piecesCompleted <= MinPieces
       /\ ~w.udc.failed
    THEN fail(w, "errNotEnoughWorkers")
    ELSE w

\* The check that works the failed flag out again on every call.
newlyFailed_Recomputed(w) ==
    IF w.udc.workersRemaining + w.udc.piecesCompleted < MinPieces
    THEN fail(w, "errNotEnoughWorkers")
    ELSE [w EXCEPT !.udc.failed = FALSE]

\* The check that does not look at the failed flag.
newlyFailed_Again(w) ==
    IF w.udc.workersRemaining + w.udc.piecesCompleted < MinPieces
    THEN fail(w, "errNotEnoughWorkers")
    ELSE w

\* managedCleanUp, its first step: the chunk is newly failed when fewer
\* than MinPieces pieces can still complete.
newlyFailed(w) ==
    IF /\ w.udc.workersRemaining + w.udc.piecesCompleted < MinPieces
       /\ ~w.udc.failed
    THEN fail(w, "errNotEnoughWorkers")
    ELSE w

\* managedCleanUp that starts the standby workers before it releases
\* udc.mu.
managedCleanUp_DispatchLocked(w) ==
    LET w1 == [w EXCEPT !.locks = Append(@, Lock("udc", "managedCleanUp"))]
        w2 == returnMemory(newlyFailed(w1))
        u == w2.udc
        chunkComplete == u.piecesCompleted >= MinPieces
        desiredPiecesRegistered ==
            MinPieces + u.staticOverdrive - u.piecesCompleted
        standbyWorkersRequired ==
            ~chunkComplete /\ u.piecesRegistered < desiredPiecesRegistered
        standbyWorkers == u.workersStandby
        unlocked == Append(w2.locks, Unlock("udc", "managedCleanUp"))
    IN  IF u.failed THEN [w2 EXCEPT !.locks = unlocked]
        ELSE IF ~standbyWorkersRequired THEN [w2 EXCEPT !.locks = unlocked]
        ELSE [w2 EXCEPT
                !.udc.workersStandby = <<>>,
                !.locks = Append(w2.locks \o
                                     [i \in 1 .. Len(standbyWorkers) |->
                                         Go("worker", "managedCleanUp")],
                                 Unlock("udc", "managedCleanUp")),
                !.workers = [wk \in DOMAIN @ |->
                                IF wk \in Range(standbyWorkers)
                                THEN "queued" ELSE @[wk]]]

\* managedCleanUp that starts the standby workers without asking whether
\* the chunk already has MinPieces pieces.
managedCleanUp_IgnoreComplete(w) ==
    LET w1 == [w EXCEPT !.locks = Append(@, Lock("udc", "managedCleanUp"))]
        w2 == returnMemory(newlyFailed(w1))
        u == w2.udc
        desiredPiecesRegistered ==
            MinPieces + u.staticOverdrive - u.piecesCompleted
        standbyWorkersRequired == u.piecesRegistered < desiredPiecesRegistered
        standbyWorkers == u.workersStandby
        unlocked == Append(w2.locks, Unlock("udc", "managedCleanUp"))
    IN  IF u.failed THEN [w2 EXCEPT !.locks = unlocked]
        ELSE IF ~standbyWorkersRequired THEN [w2 EXCEPT !.locks = unlocked]
        ELSE [w2 EXCEPT
                !.udc.workersStandby = <<>>,
                !.locks = unlocked \o
                          [i \in 1 .. Len(standbyWorkers) |->
                              Go("worker", "managedCleanUp")],
                !.workers = [wk \in DOMAIN @ |->
                                IF wk \in Range(standbyWorkers)
                                THEN "queued" ELSE @[wk]]]

\* managedCleanUp that starts the standby workers and leaves them on the
\* standby list.
managedCleanUp_KeepStandby(w) ==
    LET w1 == [w EXCEPT !.locks = Append(@, Lock("udc", "managedCleanUp"))]
        w2 == returnMemory(newlyFailed(w1))
        u == w2.udc
        chunkComplete == u.piecesCompleted >= MinPieces
        desiredPiecesRegistered ==
            MinPieces + u.staticOverdrive - u.piecesCompleted
        standbyWorkersRequired ==
            ~chunkComplete /\ u.piecesRegistered < desiredPiecesRegistered
        standbyWorkers == u.workersStandby
        unlocked == Append(w2.locks, Unlock("udc", "managedCleanUp"))
    IN  IF u.failed THEN [w2 EXCEPT !.locks = unlocked]
        ELSE IF ~standbyWorkersRequired THEN [w2 EXCEPT !.locks = unlocked]
        ELSE [w2 EXCEPT
                !.locks = unlocked \o
                          [i \in 1 .. Len(standbyWorkers) |->
                              Go("worker", "managedCleanUp")],
                !.workers = [wk \in DOMAIN @ |->
                                IF wk \in Range(standbyWorkers)
                                THEN "queued" ELSE @[wk]]]

\* managedCleanUp that returns from a failed chunk without releasing
\* udc.mu.
managedCleanUp_FailedExitLocked(w) ==
    LET w1 == [w EXCEPT !.locks = Append(@, Lock("udc", "managedCleanUp"))]
        w2 == returnMemory(newlyFailed(w1))
        u == w2.udc
        chunkComplete == u.piecesCompleted >= MinPieces
        desiredPiecesRegistered ==
            MinPieces + u.staticOverdrive - u.piecesCompleted
        standbyWorkersRequired ==
            ~chunkComplete /\ u.piecesRegistered < desiredPiecesRegistered
        standbyWorkers == u.workersStandby
        unlocked == Append(w2.locks, Unlock("udc", "managedCleanUp"))
    IN  IF u.failed THEN w2
        ELSE IF ~standbyWorkersRequired THEN [w2 EXCEPT !.locks = unlocked]
        ELSE [w2 EXCEPT
                !.udc.workersStandby = <<>>,
                !.locks = unlocked \o
                          [i \in 1 .. Len(standbyWorkers) |->
                              Go("worker", "managedCleanUp")],
                !.workers = [wk \in DOMAIN @ |->
                                IF wk \in Range(standbyWorkers)
                                THEN "queued" ELSE @[wk]]]

\* managedCleanUp that takes the workers off standby and never starts
\* them.
managedCleanUp_DropStandby(w) ==
    LET w1 == [w EXCEPT !.locks = Append(@, Lock("udc", "managedCleanUp"))]
        w2 == returnMemory(newlyFailed(w1))
        u == w2.udc
        chunkComplete == u.piecesCompleted >= MinPieces
        desiredPiecesRegistered ==
            MinPieces + u.staticOverdrive - u.piecesCompleted
        standbyWorkersRequired ==
            ~chunkComplete /\ u.piecesRegistered < desiredPiecesRegistered
        standbyWorkers == u.workersStandby
        unlocked == Append(w2.locks, Unlock("udc", "managedCleanUp"))
    IN  IF u.failed THEN [w2 EXCEPT !.locks = unlocked]
        ELSE IF ~standbyWorkersRequired THEN [w2 EXCEPT !.locks = unlocked]
        ELSE [w2 EXCEPT
                !.udc.workersStandby = <<>>,
                !.locks = unlocked]

\* managedCleanUp, all of it: under udc.mu the chunk is failed when too
\* few workers remain and excess memory is returned; when standby workers
\* are required the standby list is emptied, udc.mu is released, and
\* every one of them is started on the chunk
\* (go threadedPerformDownloadChunkJob).
managedCleanUp(w) ==
    LET w1 == [w EXCEPT !.locks = Append(@, Lock("udc", "managedCleanUp"))]
        w2 == returnMemory(newlyFailed(w1))
        u == w2.udc
        chunkComplete == u.piecesCompleted >= MinPieces
        desiredPiecesRegistered ==
            MinPieces + u.staticOverdrive - u.piecesCompleted
        standbyWorkersRequired ==
            ~chunkComplete /\ u.piecesRegistered < desiredPiecesRegistered
        standbyWorkers == u.workersStandby
        unlocked == Append(w2.locks, Unlock("udc", "managedCleanUp"))
    IN  IF u.failed THEN [w2 EXCEPT !.locks = unlocked]
        ELSE IF ~standbyWorkersRequired THEN [w2 EXCEPT !.locks = unlocked]
        ELSE [w2 EXCEPT
                !.udc.workersStandby = <<>>,
                !.locks = unlocked \o
                          [i \in 1 .. Len(standbyWorkers) |->
                              Go("worker", "managedCleanUp")],
                !.workers = [wk \in DOMAIN @ |->
                                IF wk \in Range(standbyWorkers)
                                THEN "queued" ELSE @[wk]]]

\* managedFinalizeRecovery, under udc.mu: the physical chunk data is
\* dropped and the recovery is complete.
managedFinalizeRecoveryChunk(w) ==
    [w EXCEPT !.udc.physicalChunkData = <<>>,
              !.udc.recoveryComplete = TRUE,
              !.hist.finalizeCalls = @ + 1,
              !.locks = @ \o <<Lock("udc", "managedFinalizeRecovery"),
                               Unlock("udc", "managedFinalizeRecovery")>>]

\* managedFinalizeRecovery that counts the chunk off before it releases
\* udc.mu.
managedFinalizeRecoveryDownload_UnderChunkLock(w) ==
    LET d == [w.download EXCEPT !.chunksRemaining = @ - 1]
    IN  [w EXCEPT !.download =
                      IF d.chunksRemaining = 0 THEN markComplete(d) ELSE d,
                  !.hist.markCompletes =
                      IF d.chunksRemaining = 0 THEN @ + 1 ELSE @,
                  !.locks = @ \o <<Lock("udc", "managedFinalizeRecovery"),
                                   Lock("download", "managedFinalizeRecovery"),
                                   Unlock("download", "managedFinalizeRecovery"),
                                   Unlock("udc", "managedFinalizeRecovery")>>]

\* managedFinalizeRecovery that takes udc.mu again inside the critical
\* section of download.mu.
managedFinalizeRecoveryDownload_LocksChunk(w) ==
    LET d == [w.download EXCEPT !.chunksRemaining = @ - 1]
    IN  [w EXCEPT !.download =
                      IF d.chunksRemaining = 0 THEN markComplete(d) ELSE d,
                  !.hist.markCompletes =
                      IF d.chunksRemaining = 0 THEN @ + 1 ELSE @,
                  !.locks = @ \o <<Lock("download", "managedFinalizeRecovery"),
                                   Lock("udc", "managedFinalizeRecovery"),
                                   Unlock("udc", "managedFinalizeRecovery"),
                                   Unlock("download", "managedFinalizeRecovery")>>]

\* managedFinalizeRecovery that completes the download one chunk early.
managedFinalizeRecoveryDownload_CompleteEarly(w) ==
    LET d == [w.download EXCEPT !.chunksRemaining = @ - 1]
    IN  [w EXCEPT !.download =
                      IF d.chunksRemaining <= 1 THEN markComplete(d) ELSE d,
                  !.hist.markCompletes =
                      IF d.chunksRemaining <= 1 THEN @ + 1 ELSE @,
                  !.locks = @ \o <<Lock("download", "managedFinalizeRecovery"),
                                   Unlock("download", "managedFinalizeRecovery")>>]

\* managedFinalizeRecovery, under download.mu: the chunk is counted off
\* and the download completes with the last one.
managedFinalizeRecoveryDownload(w) ==
    LET d == [w.download EXCEPT !.chunksRemaining = @ - 1]
    IN  [w EXCEPT !.download =
                      IF d.chunksRemaining = 0 THEN markComplete(d) ELSE d,
                  !.hist.markCompletes =
                      IF d.chunksRemaining = 0 THEN @ + 1 ELSE @,
                  !.locks = @ \o <<Lock("download", "managedFinalizeRecovery"),
                                   Unlock("download", "managedFinalizeRecovery")>>]

\* managedRemoveWorker with the sign slipped.
managedRemoveWorker_Increment(w) ==
    [w EXCEPT !.udc.workersRemaining = @ + 1,
              !.locks = @ \o <<Lock("udc", "managedRemoveWorker"),
                               Unlock("udc", "managedRemoveWorker")>>]

\* managedRemoveWorker, under udc.mu; managedCleanUp follows.
managedRemoveWorker(w) ==
    [w EXCEPT !.udc.workersRemaining = @ - 1,
              !.locks = @ \o <<Lock("udc", "managedRemoveWorker"),
                               Unlock("udc", "managedRemoveWorker")>>]

\* markPieceCompleted that sets the flag and forgets the counter.
markPieceCompleted_NoCount(w, pieceIndex) ==
    [w EXCEPT !.udc.completedPieces[pieceIndex] = TRUE,
              !.hist.marked[pieceIndex] = @ + 1]

\* markPieceCompleted.
markPieceCompleted(w, pieceIndex) ==
    [w EXCEPT !.udc.completedPieces[pieceIndex] = TRUE,
              !.udc.piecesCompleted = @ + 1,
              !.hist.marked[pieceIndex] = @ + 1]

(***************************************************************************)
(* The initial state: the chunk as the download creates it, before its     *)
(* memory is granted. Every worker of the pool is to receive the chunk.    *)
(* partials are the erasure coders the chunk may have, recordLocks says    *)
(* whether the lock events of the steps are kept.                          *)
(***************************************************************************)
InitChunk(partials, recordLocks) ==
    /\ \E od \in 0 .. MaxOverdrive, partial \in partials, r \in FetchRanges :
          udc = [destination |-> "sink",
                 erasureCode |-> [partial |-> partial,
                                 minPieces |-> MinPieces,
                                 segmentSize |-> SegmentSize],
                 staticFetchOffset |-> r[1],
                 staticFetchLength |-> r[2],
                 staticWriteOffset |-> r[3],
                 staticOverdrive |-> od,
                 completedPieces |-> [i \in Pieces |-> FALSE],
                 failed |-> FALSE,
                 physicalChunkData |-> [i \in Pieces |-> NoPiece],
                 pieceUsage |-> [i \in Pieces |-> FALSE],
                 piecesCompleted |-> 0,
                 piecesRegistered |-> 0,
                 recoveryComplete |-> FALSE,
                 workersRemaining |-> NumWorkers,
                 workersStandby |-> <<>>,
                 memoryAllocated |-> 0]
    /\ download = [chunksRemaining |-> 1, complete |-> FALSE, err |-> "nil",
                   cancelled |-> FALSE]
    /\ mm = [available |-> MemoryTotal, underflow |-> 0,
             high |-> <<>>, low |-> <<>>, granted |-> {}, issued |-> 0]
    /\ workers = [wk \in Workers |-> "queued"]
    /\ recovery = "idle"
    /\ stage = "init"
    /\ hist = [requested |-> 0, returned |-> 0, failCalls |-> 0,
               failErr |-> "nil", finalizeCalls |-> 0, recoveries |-> 0,
               writes |-> <<>>,
               removed |-> [wk \in Workers |-> 0],
               marked |-> [i \in Pieces |-> 0],
               markCompletes |-> 0, recoverErr |-> "none",
               recordLocks |-> recordLocks]
    /\ locks = <<>>

\* No range has been given to bytesToRecover and recoveredDataOffset.
NoRange ==
    [fetchOffset |-> 0, fetchLength |-> 0, chunkSize |-> 0,
     rs |-> [partial |-> FALSE, minPieces |-> 0, segmentSize |-> 0],
     calls |-> 0, bytesToRecover |-> 0, recoveredDataOffset |-> 0]

\* The wallet as createBlankWalletTester leaves it: not encrypted, not
\* unlocked, no call made of it.
NewWallet == [encrypted |-> FALSE, unlocked |-> FALSE, log |-> <<>>]

\* No Unlock call runs: the wallet's scan lock and its mutex are free.
NoUnlocking ==
    [scanLock |-> FALSE, mu |-> "free",
     calls |-> [c \in 1 .. MaxUnlockCalls |->
                   [pc |-> "idle", key |-> "nil", err |-> "none"]]]

\* The download has this one chunk.
NoChunks == <<>>

Init ==
    /\ InitChunk(BOOLEAN, FALSE)
    /\ range = NoRange
    /\ wallet = NewWallet
    /\ unlocking = NoUnlocking
    /\ chunks = NoChunks

\* The same chunk with the lock events of every step kept; the locks a
\* task takes do not depend on the erasure coder.
InitLocks ==
    /\ InitChunk({TRUE}, TRUE)
    /\ range = NoRange
    /\ wallet = NewWallet
    /\ unlocking = NoUnlocking
    /\ chunks = NoChunks

\* The fetch ranges, chunk sizes and erasure coders that bytesToRecover
\* and recoveredDataOffset are called with.
RangeInputs ==
    [fetchOffset : 0 .. MaxRangeOffset,
     fetchLength : 0 .. MaxRangeLength,
     chunkSize : {MaxRangeOffset + MaxRangeLength, RangeChunkSize},
     rs : [partial : BOOLEAN, minPieces : 1 .. MaxRangeMinPieces,
           segmentSize : 1 .. MaxSegmentSize],
     calls : {0}, bytesToRecover : {0}, recoveredDataOffset : {0}]

InitRange ==
    /\ InitChunk({TRUE}, FALSE)
    /\ range \in RangeInputs
    /\ wallet = NewWallet
    /\ unlocking = NoUnlocking
    /\ chunks = NoChunks

(***************************************************************************)
(* The engine and the workers.                                             *)
(***************************************************************************)

\* The event memoryGranted: the memory manager grants the chunk its
\* memory, the chunk goes to the workers, and the event ends in
\* managedCleanUp.
MemoryGranted ==
    /\ stage = "init"
    /\ mm.available >= memoryRequired(udc.staticOverdrive)
    /\ LET n == memoryRequired(udc.staticOverdrive)
           w == [World EXCEPT !.mm = Request(@, n),
                              !.locks = <<Call("memoryManager", "engine")>>
                                            \o RequestLocks,
                              !.hist.requested = @ + n,
                              !.udc.memoryAllocated = n]
       IN  Commit(managedCleanUp(w))
    /\ stage' = "active"

\* The job loop of a worker that registers without looking at pieceUsage.
ProcessDownloadChunk_IgnoreUsage(wk) ==
    /\ stage = "active"
    /\ workers[wk] = "queued"
    /\ LET pieceIndex == staticChunkMap(wk)
           viable == /\ ~udc.failed
                     /\ ~download.cancelled
                     /\ udc.piecesCompleted < MinPieces
                     /\ ~udc.completedPieces[pieceIndex]
           workersDesired ==
               udc.piecesRegistered + udc.piecesCompleted
                   < MinPieces + udc.staticOverdrive
           w == [World EXCEPT !.locks = WorkerQueueLocks \o WorkerChunkLocks]
       IN  IF ~viable
           THEN Commit([w EXCEPT !.workers[wk] = "remove"])
           ELSE IF workersDesired
           THEN Commit([w EXCEPT !.udc.pieceUsage[pieceIndex] = TRUE,
                                 !.udc.piecesRegistered = @ + 1,
                                 !.workers[wk] = "fetching"])
           ELSE Commit([w EXCEPT !.udc.workersStandby = Append(@, wk),
                                 !.workers[wk] = "standby"])
    /\ UNCHANGED stage

\* The job loop of a worker that registers as long as fewer than
\* MinPieces + staticOverdrive pieces are registered, whatever has
\* completed.
ProcessDownloadChunk_IgnoreCompleted(wk) ==
    /\ stage = "active"
    /\ workers[wk] = "queued"
    /\ LET pieceIndex == staticChunkMap(wk)
           viable == /\ ~udc.failed
                     /\ ~download.cancelled
                     /\ udc.piecesCompleted < MinPieces
                     /\ ~udc.completedPieces[pieceIndex]
           workersDesired ==
               /\ udc.piecesRegistered < MinPieces + udc.staticOverdrive
               /\ ~udc.pieceUsage[pieceIndex]
           w == [World EXCEPT !.locks = WorkerQueueLocks \o WorkerChunkLocks]
       IN  IF ~viable
           THEN Commit([w EXCEPT !.workers[wk] = "remove"])
           ELSE IF workersDesired
           THEN Commit([w EXCEPT !.udc.pieceUsage[pieceIndex] = TRUE,
                                 !.udc.piecesRegistered = @ + 1,
                                 !.workers[wk] = "fetching"])
           ELSE Commit([w EXCEPT !.udc.workersStandby = Append(@, wk),
                                 !.workers[wk] = "standby"])
    /\ UNCHANGED stage

\* The job loop of worker wk taking the chunk from its queue, under
\* udc.mu: a chunk that is no longer viable is dropped and the worker
\* removed; a worker whose piece is wanted registers it and fetches;
\* any other worker goes on standby.
ProcessDownloadChunk(wk) ==
    /\ stage = "active"
    /\ workers[wk] = "queued"
    /\ LET pieceIndex == staticChunkMap(wk)
           viable == /\ ~udc.failed
                     /\ ~download.cancelled
                     /\ udc.piecesCompleted < MinPieces
                     /\ ~udc.completedPieces[pieceIndex]
           workersDesired ==
               /\ udc.piecesRegistered + udc.piecesCompleted
                      < MinPieces + udc.staticOverdrive
               /\ ~udc.pieceUsage[pieceIndex]
           w == [World EXCEPT !.locks = WorkerQueueLocks \o WorkerChunkLocks]
       IN  IF ~viable
           THEN Commit([w EXCEPT !.workers[wk] = "remove"])
           ELSE IF workersDesired
           THEN Commit([w EXCEPT !.udc.pieceUsage[pieceIndex] = TRUE,
                                 !.udc.piecesRegistered = @ + 1,
                                 !.workers[wk] = "fetching"])
           ELSE Commit([w EXCEPT !.udc.workersStandby = Append(@, wk),
                                 !.workers[wk] = "standby"])
    /\ UNCHANGED stage

\* Worker wk is killed with the chunk still in its queue: the chunk sees
\* managedRemoveWorker.
Kill(wk) ==
    /\ stage = "active"
    /\ workers[wk] = "queued"
    /\ Commit([World EXCEPT !.workers[wk] = "remove",
                            !.locks = WorkerQueueLocks])
    /\ UNCHANGED stage

\* The event pieceCompleted that starts the recovery task whenever the
\* chunk has MinPieces pieces or more.
PieceCompleted_RecoverAgain(wk) ==
    /\ workers[wk] = "fetching"
    /\ LET pieceIndex == staticChunkMap(wk)
           w1 == markPieceCompleted([World EXCEPT !.locks = WorkerChunkLocks],
                                    pieceIndex)
           w2 == [w1 EXCEPT
                    !.udc.piecesRegistered = @ - 1,
                    !.udc.physicalChunkData =
                        IF pieceIndex \in DOMAIN @
                        THEN [@ EXCEPT ![pieceIndex] = PieceData(pieceIndex, udc)]
                        ELSE @,
                    !.workers[wk] = "remove"]
       IN  IF w2.udc.piecesCompleted >= MinPieces
           THEN Commit([w2 EXCEPT !.recovery = "write",
                                  !.hist.recoveries = @ + 1])
           ELSE Commit(w2)
    /\ UNCHANGED stage

\* The event pieceCompleted: the fetch of worker wk succeeded. Under
\* udc.mu the piece is marked completed and stored at its slot, and the
\* recovery task is started when the chunk reaches MinPieces pieces.
PieceCompleted(wk) ==
    /\ workers[wk] = "fetching"
    /\ LET pieceIndex == staticChunkMap(wk)
           w1 == markPieceCompleted([World EXCEPT !.locks = WorkerChunkLocks],
                                    pieceIndex)
           w2 == [w1 EXCEPT
                    !.udc.piecesRegistered = @ - 1,
                    !.udc.physicalChunkData =
                        IF pieceIndex \in DOMAIN @
                        THEN [@ EXCEPT ![pieceIndex] = PieceData(pieceIndex, udc)]
                        ELSE @,
                    !.workers[wk] = "remove"]
       IN  IF w2.udc.piecesCompleted = MinPieces
           THEN Commit([w2 EXCEPT !.recovery = "write",
                                  !.hist.recoveries = @ + 1])
           ELSE Commit(w2)
    /\ UNCHANGED stage

\* The event pieceFailed: the fetch of worker wk failed. Under udc.mu the
\* registration is cleared and the slot is left empty.
PieceFailed(wk) ==
    /\ workers[wk] = "fetching"
    /\ Commit([World EXCEPT
                 !.udc.piecesRegistered = @ - 1,
                 !.udc.pieceUsage[staticChunkMap(wk)] = FALSE,
                 !.workers[wk] = "remove",
                 !.locks = WorkerChunkLocks])
    /\ UNCHANGED stage

\* The event workerRemoved, first half: managedRemoveWorker of worker wk
\* under udc.mu.
RemoveWorker(wk) ==
    /\ workers[wk] = "remove"
    /\ Commit([managedRemoveWorker(World) EXCEPT
                 !.hist.removed[wk] = @ + 1,
                 !.workers[wk] = "cleanup"])
    /\ UNCHANGED stage

\* The event workerRemoved, second half: the managedCleanUp that ends
\* managedRemoveWorker.
WorkerCleanUp(wk) ==
    /\ workers[wk] = "cleanup"
    /\ Commit(managedCleanUp([World EXCEPT !.workers[wk] = "done"]))
    /\ UNCHANGED stage

\* A cancellation that fails the chunk with errCancelled on the spot.
Cancel_FailsChunk ==
    /\ Commit([fail(World, "errCancelled") EXCEPT !.download.cancelled = TRUE])
    /\ UNCHANGED stage

\* The download is cancelled, for the first time or again.
Cancel ==
    /\ download' = [managedFail(download, "errCancelled")
                        EXCEPT !.cancelled = TRUE]
    /\ locks' = IF hist.recordLocks THEN managedFailLocks ELSE <<>>
    /\ UNCHANGED <<udc, mm, workers, recovery, stage, hist, range, wallet,
                   unlocking, chunks>>

(***************************************************************************)
(* threadedRecoverLogicalData, step by step.                               *)
(***************************************************************************)

\* The call of destination.WritePieces, without a lock. It reads
\* udc.destination and udc.physicalChunkData as they are at that moment;
\* a destination that fail has set to nil cannot be called.
RecoverWrite ==
    /\ recovery = "write"
    /\ IF udc.destination = "nil"
       THEN Commit([World EXCEPT !.recovery = "panic"])
       ELSE \E ok \in BOOLEAN :
              LET dataOffset ==
                      recoveredDataOffset(udc.staticFetchOffset, udc.erasureCode)
                  call == WritePieces(udc.erasureCode, udc.physicalChunkData,
                                      dataOffset, udc.staticWriteOffset,
                                      udc.staticFetchLength)
              IN  Commit([World EXCEPT
                            !.hist.writes =
                                Append(@, [call |-> call, ok |-> ok]),
                            !.recovery = IF ok THEN "finalize" ELSE "fail"])
    /\ UNCHANGED stage

\* The error path of threadedRecoverLogicalData without its return: the
\* chunk is failed and then finalised.
RecoverFail_FallThrough ==
    /\ recovery = "fail"
    /\ LET w == [World EXCEPT
                   !.locks = <<Lock("udc", "threadedRecoverLogicalData")>>]
       IN  Commit([fail(w, "errDestination") EXCEPT
                     !.recovery = "finalize",
                     !.locks = Append(@, Unlock("udc",
                                             "threadedRecoverLogicalData"))])
    /\ UNCHANGED stage

\* WritePieces returned an error: fail under udc.mu, and the error is
\* returned; the deferred managedCleanUp is what is left.
RecoverFail ==
    /\ recovery = "fail"
    /\ LET w == [World EXCEPT
                   !.locks = <<Lock("udc", "threadedRecoverLogicalData")>>]
       IN  Commit([fail(w, "errDestination") EXCEPT
                     !.recovery = "cleanup",
                     !.hist.recoverErr = "errDestination",
                     !.locks = Append(@, Unlock("udc",
                                             "threadedRecoverLogicalData"))])
    /\ UNCHANGED stage

\* managedFinalizeRecovery, the critical section of udc.mu.
FinalizeChunk ==
    /\ recovery = "finalize"
    /\ Commit([managedFinalizeRecoveryChunk(World)
                  EXCEPT !.recovery = "notify"])
    /\ UNCHANGED stage

\* managedFinalizeRecovery, the critical section of download.mu;
\* threadedRecoverLogicalData then returns nil.
FinalizeDownload ==
    /\ recovery = "notify"
    /\ Commit([managedFinalizeRecoveryDownload(World)
                  EXCEPT !.recovery = "cleanup",
                         !.hist.recoverErr = "nil"])
    /\ UNCHANGED stage

\* The deferred managedCleanUp of threadedRecoverLogicalData.
RecoverCleanUp ==
    /\ recovery = "cleanup"
    /\ Commit(managedCleanUp([World EXCEPT !.recovery = "done"]))
    /\ UNCHANGED stage

Next ==
    \/ MemoryGranted
    \/ \E wk \in Workers : ProcessDownloadChunk(wk)
    \/ \E wk \in Workers : Kill(wk)
    \/ \E wk \in Workers : PieceCompleted(wk)
    \/ \E wk \in Workers : PieceFailed(wk)
    \/ \E wk \in Workers : RemoveWorker(wk)
    \/ \E wk \in Workers : WorkerCleanUp(wk)
    \/ RecoverWrite
    \/ RecoverFail
    \/ FinalizeChunk
    \/ FinalizeDownload
    \/ RecoverCleanUp

Spec == Init /\ [][Next]_vars

\* The same with the download's cancellation.
NextCancel ==
    \/ Next
    \/ Cancel

SpecCancel == Init /\ [][NextCancel]_vars

\* The tasks run: as long as some task can take a step, a step is taken.
\* This asks less than that every worker finishes its fetch and calls
\* managedRemoveWorker and that the recovery task runs to its end, and
\* follows from it.
Fairness == WF_vars(Next)

SpecFair == Init /\ [][Next]_vars /\ Fairness

SpecCancelFair == Init /\ [][NextCancel]_vars /\ Fairness

(***************************************************************************)
(* The memory manager under requests of both priorities, the chunk left    *)
(* as it is created.                                                       *)
(***************************************************************************)

\* Some task calls Request(amount, priority). A high priority request is
\* for no more than total.
MemoryRequest(amount, priority) ==
    /\ mm.issued < MaxRequests
    /\ priority = "high" => amount <= MemoryTotal
    /\ mm' = RequestCall(mm, [id |-> mm.issued + 1, amount |-> amount,
                               priority |-> priority])
    /\ UNCHANGED <<udc, download, workers, recovery, stage, hist, locks,
                   range, wallet, unlocking, chunks>>

\* The task that was granted the request r returns its memory.
MemoryReturn(r) ==
    /\ r \in mm.granted
    /\ mm' = Return([mm EXCEPT !.granted = @ \ {r}], r.amount)
    /\ UNCHANGED <<udc, download, workers, recovery, stage, hist, locks,
                   range, wallet, unlocking, chunks>>

NextMemory ==
    \/ \E amount \in RequestSizes, priority \in {"high", "low"} :
          MemoryRequest(amount, priority)
    \/ \E r \in mm.granted : MemoryReturn(r)

SpecMemory == Init /\ [][NextMemory]_vars

(***************************************************************************)
(* The range arithmetic on its own: bytesToRecover and                     *)
(* recoveredDataOffset are called with the range and the erasure coder of  *)
(* range.                                                                  *)
(***************************************************************************)
ComputeRange ==
    /\ range.calls = 0
    /\ range' = [range EXCEPT
                    !.calls = 1,
                    !.bytesToRecover =
                        bytesToRecover(range.fetchOffset, range.fetchLength,
                                       range.chunkSize, range.rs),
                    !.recoveredDataOffset =
                        recoveredDataOffset(range.fetchOffset, range.rs)]
    /\ UNCHANGED <<udc, download, mm, workers, recovery, stage, hist, locks,
                   wallet, unlocking, chunks>>

NextRange == ComputeRange

SpecRange == InitRange /\ [][NextRange]_vars

(***************************************************************************)
(* The wallet of the wallet tests: Encrypt, Unlock and Lock as the tests   *)
(* expect them to answer.                                                  *)
(***************************************************************************)

\* The keys a test unlocks with: the master key of the wallet, and nil or
\* any other key.
WalletKeys == {"masterKey", "nil"}

\* The errors Unlock(key) may return.
UnlockErrors(w, key) ==
    IF ~w.encrypted THEN {"errUnencryptedWallet"}
    ELSE IF w.unlocked
    THEN IF key = "masterKey" THEN {"errAlreadyUnlocked"}
         ELSE {"errAlreadyUnlocked", "ErrBadEncryptionKey"}
    ELSE IF key = "masterKey" THEN {"nil"}
    ELSE {"ErrBadEncryptionKey"}

\* Lock() that does not look at whether the wallet is unlocked.
LockError_AlwaysLocks(w) == "nil"

\* The error Lock() returns.
LockError(w) == IF w.unlocked THEN "nil" ELSE "ErrLockedWallet"

\* The wallet after a call that returned err; a call that returns an
\* error leaves the wallet as it was.
AfterCall(w, call, key, err) ==
    [w EXCEPT
        !.encrypted = IF call = "Encrypt" /\ err = "nil" THEN TRUE ELSE @,
        !.unlocked = IF err # "nil" THEN @
                     ELSE IF call = "Unlock" THEN TRUE
                     ELSE FALSE,
        !.log = Append(@, [call |-> call, key |-> key, err |-> err,
                           encrypted |-> w.encrypted,
                           unlocked |-> w.unlocked])]

\* wallet.Encrypt(masterKey) on the blank wallet: the wallet is encrypted
\* and locked.
WalletEncrypt ==
    /\ Len(wallet.log) < MaxWalletCalls
    /\ ~wallet.encrypted
    /\ wallet' = AfterCall(wallet, "Encrypt", "masterKey", "nil")
    /\ UNCHANGED <<udc, download, mm, workers, recovery, stage, hist, locks,
                   range, unlocking, chunks>>

\* wallet.Unlock(key).
WalletUnlock(key) ==
    /\ Len(wallet.log) < MaxWalletCalls
    /\ \E err \in UnlockErrors(wallet, key) :
          wallet' = AfterCall(wallet, "Unlock", key, err)
    /\ UNCHANGED <<udc, download, mm, workers, recovery, stage, hist, locks,
                   range, unlocking, chunks>>

\* wallet.Lock().
WalletLock ==
    /\ Len(wallet.log) < MaxWalletCalls
    /\ wallet' = AfterCall(wallet, "Lock", "nil", LockError(wallet))
    /\ UNCHANGED <<udc, download, mm, workers, recovery, stage, hist, locks,
                   range, unlocking, chunks>>

NextWallet ==
    \/ WalletEncrypt
    \/ \E key \in WalletKeys : WalletUnlock(key)
    \/ WalletLock

SpecWallet == Init /\ [][NextWallet]_vars

\* The calls of postEncryptionTesting and the errors it accepts.
postEncryptionTesting ==
    << <<"Unlock", "masterKey", "nil">>,
       <<"Unlock", "masterKey", "errAlreadyUnlocked">>,
       <<"Unlock", "masterKey", "errAlreadyUnlocked">>,
       <<"Lock", "nil", "nil">>,
       <<"Lock", "nil", "ErrLockedWallet">>,
       <<"Unlock", "nil", "ErrBadEncryptionKey">>,
       <<"Unlock", "masterKey", "nil">> >>

\* The calls of TestIntegrationPreEncryption on the blank wallet.
TestIntegrationPreEncryption ==
    << <<"Lock", "nil", "ErrLockedWallet">>,
       <<"Unlock", "nil", "errUnencryptedWallet">> >>

\* The calls of TestIntegrationBlankEncryption, and then those of
\* postEncryptionTesting.
TestIntegrationBlankEncryption ==
    << <<"Encrypt", "masterKey", "nil">>,
       <<"Unlock", "nil", "ErrBadEncryptionKey">>,
       <<"Unlock", "masterKey", "nil">>,
       <<"Lock", "nil", "nil">> >> \o postEncryptionTesting

RECURSIVE TestPasses(_, _)
\* The test with the calls script, begun on the wallet w, meets no error
\* other than those it accepts.
TestPasses(w, script) ==
    IF script = <<>> THEN TRUE
    ELSE LET call == Head(script)[1]
             key == Head(script)[2]
             expected == Head(script)[3]
             errs == IF call = "Unlock" THEN UnlockErrors(w, key)
                     ELSE IF call = "Lock" THEN {LockError(w)}
                     ELSE {"nil"}
         IN  /\ errs = {expected}
             /\ TestPasses(AfterCall(w, call, key, expected), Tail(script))

(***************************************************************************)
(* Unlock calls that run at the same time (TestUnlockConcurrent). Unlock   *)
(* takes the wallet's scan lock with TryLock and returns                   *)
(* errScanInProgress when it is taken; holding it, it takes the wallet's   *)
(* mutex, unlocks the wallet and releases both. The test holds the         *)
(* wallet's mutex to keep a call from going further.                       *)
(***************************************************************************)

\* The wallet of createWalletTester, encrypted and unlocked, after the
\* test has locked it.
LockedWallet ==
    AfterCall(AfterCall(AfterCall(NewWallet, "Encrypt", "masterKey", "nil"),
                        "Unlock", "masterKey", "nil"),
              "Lock", "nil", "nil")

InitUnlock ==
    /\ InitChunk({TRUE}, FALSE)
    /\ range = NoRange
    /\ wallet = LockedWallet
    /\ unlocking = NoUnlocking
    /\ chunks = NoChunks

\* TryLock that takes the scan lock whether it is held or not.
TryLock_AlwaysSucceeds(held) == TRUE

\* scanLock.TryLock(): whether the lock was taken.
TryLock(held) == ~held

\* The test takes the wallet's mutex (wt.wallet.mu.Lock()).
TestLockMu ==
    /\ unlocking.mu = "free"
    /\ unlocking' = [unlocking EXCEPT !.mu = "test"]
    /\ UNCHANGED <<udc, download, mm, workers, recovery, stage, hist, locks,
                   range, wallet, chunks>>

\* The test releases the wallet's mutex (wt.wallet.mu.Unlock()).
TestUnlockMu ==
    /\ unlocking.mu = "test"
    /\ unlocking' = [unlocking EXCEPT !.mu = "released"]
    /\ UNCHANGED <<udc, download, mm, workers, recovery, stage, hist, locks,
                   range, wallet, chunks>>

\* Call c of Unlock(key) begins: it tries the scan lock, and returns
\* errScanInProgress when it does not get it.
UnlockBegin(c, key) ==
    /\ unlocking.calls[c].pc = "idle"
    /\ IF TryLock(unlocking.scanLock)
       THEN unlocking' =
                [unlocking EXCEPT !.scanLock = TRUE,
                                  !.calls[c] = [pc |-> "scanning",
                                                key |-> key, err |-> "none"]]
       ELSE unlocking' =
                [unlocking EXCEPT !.calls[c] = [pc |-> "returned", key |-> key,
                                                err |-> "errScanInProgress"]]
    /\ UNCHANGED <<udc, download, mm, workers, recovery, stage, hist, locks,
                   range, wallet, chunks>>

\* Call c of Unlock, holding the scan lock, gets the wallet's mutex,
\* unlocks the wallet or finds the error, and releases the scan lock.
UnlockFinish(c) ==
    /\ unlocking.calls[c].pc = "scanning"
    /\ unlocking.mu # "test"
    /\ \E err \in UnlockErrors(wallet, unlocking.calls[c].key) :
          /\ wallet' = AfterCall(wallet, "Unlock", unlocking.calls[c].key, err)
          /\ unlocking' = [unlocking EXCEPT !.scanLock = FALSE,
                                            !.calls[c].pc = "returned",
                                            !.calls[c].err = err]
    /\ UNCHANGED <<udc, download, mm, workers, recovery, stage, hist, locks,
                   range, chunks>>

NextUnlock ==
    \/ TestLockMu
    \/ TestUnlockMu
    \/ \E c \in 1 .. MaxUnlockCalls, key \in WalletKeys : UnlockBegin(c, key)
    \/ \E c \in 1 .. MaxUnlockCalls : UnlockFinish(c)

SpecUnlock == InitUnlock /\ [][NextUnlock]_vars

(***************************************************************************)
(* A download of several chunks. Every chunk has had its piece events:     *)
(* either MinPieces pieces completed and threadedRecoverLogicalData was    *)
(* started, or all of its workers were removed after MinPieces - 1 pieces  *)
(* and the managedCleanUp of the last removal is yet to run. The recovery  *)
(* tasks of the chunks run at the same time and share the download and     *)
(* the memory manager.                                                     *)
(***************************************************************************)
Chunks == 1 .. NumChunks

\* A chunk without overdrive as the download creates it.
CreatedChunk ==
    [destination |-> "sink",
     erasureCode |-> [partial |-> TRUE, minPieces |-> MinPieces,
                     segmentSize |-> SegmentSize],
     staticFetchOffset |-> FetchOffset,
     staticFetchLength |-> FetchLength,
     staticWriteOffset |-> WriteOffset,
     staticOverdrive |-> 0,
     completedPieces |-> [i \in Pieces |-> FALSE],
     failed |-> FALSE,
     physicalChunkData |-> [i \in Pieces |-> NoPiece],
     pieceUsage |-> [i \in Pieces |-> FALSE],
     piecesCompleted |-> 0,
     piecesRegistered |-> 0,
     recoveryComplete |-> FALSE,
     workersRemaining |-> NumWorkers,
     workersStandby |-> <<>>,
     memoryAllocated |-> 0]

\* The chunk after the first n pieces completed and every worker was
\* removed: it holds the memory of MinPieces pieces.
FetchedPieces(n) ==
    [CreatedChunk EXCEPT
        !.completedPieces = [i \in Pieces |-> i <= n],
        !.pieceUsage = [i \in Pieces |-> i <= n],
        !.physicalChunkData =
            [i \in Pieces |-> IF i <= n THEN PieceData(i, CreatedChunk)
                              ELSE NoPiece],
        !.piecesCompleted = n,
        !.workersRemaining = 0,
        !.memoryAllocated = memoryRequired(0)]

\* A chunk whose recovery has been started, and a chunk that is about to
\* be failed for want of workers.
FetchedChunk == FetchedPieces(MinPieces)
StarvedChunk == FetchedPieces(MinPieces - 1)

InitChunks ==
    /\ udc = CreatedChunk
    /\ download = [chunksRemaining |-> NumChunks, complete |-> FALSE,
                   err |-> "nil", cancelled |-> FALSE]
    /\ mm = [available |-> 0, underflow |-> 0,
             high |-> <<>>, low |-> <<>>, granted |-> {}, issued |-> 0]
    /\ workers = [wk \in Workers |-> "done"]
    /\ recovery = "idle"
    /\ stage = "active"
    /\ hist = [requested |-> NumChunks * memoryRequired(0), returned |-> 0,
               failCalls |-> 0, failErr |-> "nil", finalizeCalls |-> 0,
               recoveries |-> 0, writes |-> <<>>,
               removed |-> [wk \in Workers |-> 0],
               marked |-> [i \in Pieces |-> 0],
               markCompletes |-> 0, recoverErr |-> "none",
               recordLocks |-> FALSE]
    /\ locks = <<>>
    /\ range = NoRange
    /\ wallet = NewWallet
    /\ unlocking = NoUnlocking
    /\ \E starved \in SUBSET Chunks :
          chunks = [c \in Chunks |->
                       IF c \in starved
                       THEN [udc |-> StarvedChunk, recovery |-> "idle",
                             pending |-> TRUE, wrote |-> 0, counted |-> 0]
                       ELSE [udc |-> FetchedChunk, recovery |-> "write",
                             pending |-> FALSE, wrote |-> 0, counted |-> 0]]

\* The state as the methods of chunk c see it.
ChunkWorld(c) ==
    [World EXCEPT !.udc = chunks[c].udc, !.recovery = chunks[c].recovery]

\* The state a method of chunk c leaves.
CommitChunk(c, w, pending, wrote, counted) ==
    /\ chunks' = [chunks EXCEPT ![c] = [udc |-> w.udc,
                                        recovery |-> w.recovery,
                                        pending |-> pending,
                                        wrote |-> wrote,
                                        counted |-> counted]]
    /\ download' = w.download
    /\ mm' = w.mm
    /\ hist' = w.hist
    /\ UNCHANGED <<udc, workers, recovery, stage, locks, range, wallet,
                   unlocking>>

\* The managedCleanUp that ends the removal of the last worker of chunk c.
ChunkCleanUp(c) ==
    /\ chunks[c].pending
    /\ CommitChunk(c, managedCleanUp(ChunkWorld(c)), FALSE,
                   chunks[c].wrote, chunks[c].counted)

\* The WritePieces call of chunk c that carries on after an error as
\* after a success.
ChunkRecoverWrite_IgnoreError(c) ==
    /\ chunks[c].recovery = "write"
    /\ IF chunks[c].udc.destination = "nil"
       THEN CommitChunk(c, [ChunkWorld(c) EXCEPT !.recovery = "panic"],
                        chunks[c].pending, chunks[c].wrote, chunks[c].counted)
       ELSE \E ok \in BOOLEAN :
              CommitChunk(c, [ChunkWorld(c) EXCEPT !.recovery = "finalize"],
                          chunks[c].pending,
                          IF ok THEN chunks[c].wrote + 1 ELSE chunks[c].wrote,
                          chunks[c].counted)

\* threadedRecoverLogicalData of chunk c: the call of
\* destination.WritePieces, which returns nil or an error.
ChunkRecoverWrite(c) ==
    /\ chunks[c].recovery = "write"
    /\ IF chunks[c].udc.destination = "nil"
       THEN CommitChunk(c, [ChunkWorld(c) EXCEPT !.recovery = "panic"],
                        chunks[c].pending, chunks[c].wrote, chunks[c].counted)
       ELSE \E ok \in BOOLEAN :
              CommitChunk(c, [ChunkWorld(c) EXCEPT
                                !.recovery = IF ok THEN "finalize" ELSE "fail"],
                          chunks[c].pending,
                          IF ok THEN chunks[c].wrote + 1 ELSE chunks[c].wrote,
                          chunks[c].counted)

\* threadedRecoverLogicalData of chunk c after an error of WritePieces:
\* fail under udc.mu, and the error is returned.
ChunkRecoverFail(c) ==
    /\ chunks[c].recovery = "fail"
    /\ CommitChunk(c, [fail(ChunkWorld(c), "errDestination")
                          EXCEPT !.recovery = "cleanup"],
                   chunks[c].pending, chunks[c].wrote, chunks[c].counted)

\* managedFinalizeRecovery of chunk c, the critical section of udc.mu.
ChunkFinalizeChunk(c) ==
    /\ chunks[c].recovery = "finalize"
    /\ CommitChunk(c, [managedFinalizeRecoveryChunk(ChunkWorld(c))
                          EXCEPT !.recovery = "notify"],
                   chunks[c].pending, chunks[c].wrote, chunks[c].counted)

\* managedFinalizeRecovery of chunk c, the critical section of
\* download.mu.
ChunkFinalizeDownload(c) ==
    /\ chunks[c].recovery = "notify"
    /\ CommitChunk(c, [managedFinalizeRecoveryDownload(ChunkWorld(c))
                          EXCEPT !.recovery = "cleanup"],
                   chunks[c].pending, chunks[c].wrote, chunks[c].counted + 1)

\* The deferred managedCleanUp of threadedRecoverLogicalData of chunk c.
ChunkRecoverCleanUp(c) ==
    /\ chunks[c].recovery = "cleanup"
    /\ CommitChunk(c, managedCleanUp([ChunkWorld(c) EXCEPT
                                         !.recovery = "done"]),
                   chunks[c].pending, chunks[c].wrote, chunks[c].counted)

NextChunks ==
    \/ \E c \in Chunks : ChunkCleanUp(c)
    \/ \E c \in Chunks : ChunkRecoverWrite(c)
    \/ \E c \in Chunks : ChunkRecoverFail(c)
    \/ \E c \in Chunks : ChunkFinalizeChunk(c)
    \/ \E c \in Chunks : ChunkFinalizeDownload(c)
    \/ \E c \in Chunks : ChunkRecoverCleanUp(c)

SpecChunks == InitChunks /\ [][NextChunks]_vars

\* The same steps with the lock events of every step kept in locks.
SpecLocks == InitLocks /\ [][Next]_vars

(***************************************************************************)
(* The states of the chunk (spec 4.3) and the steps that are a             *)
(* managedCleanUp.                                                         *)
(***************************************************************************)
Done == udc.recoveryComplete /\ ~udc.failed
Failed == udc.failed
Terminal == udc.failed \/ udc.recoveryComplete

\* A step that is a run of managedCleanUp.
CleanUpStep ==
    \/ MemoryGranted
    \/ \E wk \in Workers : WorkerCleanUp(wk)
    \/ RecoverCleanUp

\* No event of the chunk is under way: no piece is being fetched, no
\* worker is between its fetch and the end of its managedCleanUp, and
\* the recovery task is not running.
Quiescent ==
    /\ stage = "active"
    /\ \A wk \in Workers : workers[wk] \in {"queued", "standby", "done"}
    /\ recovery \in {"idle", "done"}

\* The plaintext positions [offset, offset + length) of the chunk.
Plaintext(offset, length) == [k \in 1 .. length |-> offset + k - 1]

(***************************************************************************)
(* C1: when the chunk is Done, threadedRecoverLogicalData has called       *)
(* WritePieces exactly once, with at least MinPieces pieces that each lie  *)
(* at their own index, with the data offset of the fetch offset (the       *)
(* offset itself, or its remainder by MinPieces x segmentSize under        *)
(* partial encoding), the chunk's write offset and fetch length, and the   *)
(* destination received plaintext[fetchOffset, fetchOffset+fetchLength).   *)
(***************************************************************************)
C1_DoneWroteTheRange ==
    Done =>
        /\ Len(hist.writes) = 1
        /\ hist.writes[1].ok
        /\ LET c == hist.writes[1].call
           IN  /\ Cardinality(UsablePieces(c.pieces)) >= MinPieces
               /\ \A i \in DOMAIN c.pieces :
                     c.pieces[i] # NoPiece =>
                        c.pieces[i].index = i /\ udc.completedPieces[i]
               /\ c.dataOffset =
                     IF udc.erasureCode.partial
                     THEN udc.staticFetchOffset % (MinPieces * SegmentSize)
                     ELSE udc.staticFetchOffset
               /\ c.writeOffset = udc.staticWriteOffset
               /\ c.length = udc.staticFetchLength
               /\ c.bytes = Plaintext(udc.staticFetchOffset,
                                      udc.staticFetchLength)

\* A Done chunk under partial encoding whose range starts past the first
\* recovered segment and whose write was given an overdrive piece too.
C1_Witness ==
    /\ Done
    /\ udc.erasureCode.partial
    /\ udc.staticFetchOffset >= MinPieces * SegmentSize
    /\ Len(hist.writes) = 1
    /\ Cardinality(UsablePieces(hist.writes[1].call.pieces)) > MinPieces

(***************************************************************************)
(* C2: a managedCleanUp that finds the chunk not failed with               *)
(* workersRemaining + piecesCompleted < MinPieces fails it with            *)
(* errNotEnoughWorkers and fails the download; no other managedCleanUp     *)
(* fails a chunk.                                                          *)
(***************************************************************************)
C2_CleanUpFailsExactlyWhenStarved ==
    [][CleanUpStep =>
        IF /\ ~udc.failed
           /\ udc.workersRemaining + udc.piecesCompleted < MinPieces
        THEN /\ udc'.failed
             /\ hist'.failCalls = hist.failCalls + 1
             /\ hist'.failErr = "errNotEnoughWorkers"
             /\ download'.complete
             /\ download'.err # "nil"
             /\ ~download.complete => download'.err = "errNotEnoughWorkers"
        ELSE /\ udc'.failed = udc.failed
             /\ hist'.failCalls = hist.failCalls
             /\ download' = download]_vars

\* A chunk that managedCleanUp failed for want of workers while a piece
\* had completed, the download failed with it.
C2_Witness ==
    /\ udc.failed
    /\ hist.failErr = "errNotEnoughWorkers"
    /\ download.err = "errNotEnoughWorkers"
    /\ udc.piecesCompleted = MinPieces - 1

(***************************************************************************)
(* C3: the event that fails a chunk ends in managedCleanUp: in the         *)
(* managedCleanUp that fails it, or in the deferred managedCleanUp of      *)
(* threadedRecoverLogicalData after a failed write.                        *)
(***************************************************************************)
FailingEventEnds ==
    \/ ~udc.failed /\ udc'.failed /\ recovery # "fail"
    \/ udc.failed /\ recovery = "cleanup" /\ recovery' = "done"

C4_MemoryRoundTrip ==
    /\ hist.returned <= hist.requested
    /\ udc.memoryAllocated + hist.returned = hist.requested
    /\ udc.memoryAllocated >= 0
    /\ mm.available = MemoryTotal - hist.requested + hist.returned
    /\ (Terminal /\ Quiescent) =>
          /\ udc.memoryAllocated = 0
          /\ hist.returned = hist.requested
          /\ hist.requested = memoryRequired(udc.staticOverdrive)

\* A cancelled download whose chunk failed while pieces were fetched,
\* every fetch over and all of the memory back.
C4_Witness ==
    /\ Failed
    /\ Quiescent
    /\ download.cancelled
    /\ udc.piecesCompleted > 0
    /\ hist.requested > 0
    /\ hist.returned = hist.requested

(***************************************************************************)
(* C5: piecesCompleted is the number of set entries of completedPieces.    *)
(***************************************************************************)
C5_CompletedCount ==
    udc.piecesCompleted = Count(udc.completedPieces, Pieces)

\* More than MinPieces pieces completed, and a worker whose piece another
\* worker completed was turned away.
C5_Witness ==
    /\ udc.piecesCompleted > MinPieces
    /\ \E a, b \in Workers :
          /\ a # b
          /\ staticChunkMap(a) = staticChunkMap(b)
          /\ udc.completedPieces[staticChunkMap(a)]
          /\ workers[a] = "done"
          /\ workers[b] = "done"

(***************************************************************************)
(* C6: once failed is true it is true in every later state.                *)
(***************************************************************************)
C6_FailedIsSticky ==
    [][udc.failed => udc'.failed]_vars

\* A chunk failed for want of workers on which later events ran: a piece
\* that was being fetched completed after the failure, and every worker
\* has finished.
C6_Witness ==
    /\ udc.failed
    /\ hist.failErr = "errNotEnoughWorkers"
    /\ udc.piecesCompleted < MinPieces
    /\ \E i \in DOMAIN udc.physicalChunkData :
          udc.physicalChunkData[i] # NoPiece
    /\ \A wk \in Workers : workers[wk] = "done"

(***************************************************************************)
(* C7: when recoveryComplete is true no entry of physicalChunkData holds   *)
(* piece bytes.                                                            *)
(***************************************************************************)
C7_ReleasedAfterRecovery ==
    udc.recoveryComplete =>
        \A i \in DOMAIN udc.physicalChunkData :
            udc.physicalChunkData[i] = NoPiece

(***************************************************************************)
(* C8: workersRemaining is never negative, it is the number of workers     *)
(* less those removed, no worker is removed twice, and a step changes it   *)
(* only as the managedRemoveWorker of one worker, lowering it by one.      *)
(***************************************************************************)
RECURSIVE Removed(_)
\* The number of managedRemoveWorker calls made by the workers of S.
Removed(S) ==
    IF S = {} THEN 0
    ELSE LET wk == CHOOSE x \in S : TRUE
         IN  hist.removed[wk] + Removed(S \ {wk})

C8_WorkersRemaining ==
    /\ [](/\ udc.workersRemaining >= 0
          /\ \A wk \in Workers : hist.removed[wk] <= 1
          /\ udc.workersRemaining = NumWorkers - Removed(Workers))
    /\ [][udc'.workersRemaining # udc.workersRemaining =>
            /\ \E wk \in Workers : RemoveWorker(wk)
            /\ udc'.workersRemaining = udc.workersRemaining - 1]_vars

\* Every worker has been removed, one of them after completing a piece.
C8_Witness ==
    /\ udc.workersRemaining = 0
    /\ \A wk \in Workers : hist.removed[wk] = 1
    /\ udc.piecesCompleted > 0

(***************************************************************************)
(* C9: a chunk is failed through fail at most once or finalised through    *)
(* managedFinalizeRecovery at most once, never both; it is failed exactly  *)
(* when fail ran and Done exactly when managedFinalizeRecovery ran.        *)
(***************************************************************************)
C9_OneTerminalPath ==
    /\ hist.failCalls + hist.finalizeCalls <= 1
    /\ udc.failed <=> hist.failCalls = 1
    /\ Done <=> hist.finalizeCalls = 1
    /\ hist.recoveries <= 1

\* The recovery ran and its write failed: the chunk was failed by
\* threadedRecoverLogicalData and never finalised.
C9_Witness ==
    /\ recovery = "done"
    /\ hist.failErr = "errDestination"
    /\ hist.failCalls = 1
    /\ hist.finalizeCalls = 0

(***************************************************************************)
(* C10 as stated: once the chunk has its memory, memoryAllocated is at     *)
(* least (workersRemaining + piecesCompleted) x pieceSize before recovery  *)
(* has completed and piecesRegistered x pieceSize after.                   *)
(***************************************************************************)
C10_AsStated ==
    stage = "active" =>
        udc.memoryAllocated >=
            IF udc.recoveryComplete
            THEN udc.piecesRegistered * PieceSize
            ELSE (udc.workersRemaining + udc.piecesCompleted) * PieceSize

\* C10 amended: once the chunk has its memory, memoryAllocated is at
\* least (piecesRegistered + piecesCompleted) x pieceSize before recovery
\* has completed and piecesRegistered x pieceSize after.
C10_AllocatedCoversPieces ==
    stage = "active" =>
        udc.memoryAllocated >=
            IF udc.recoveryComplete
            THEN udc.piecesRegistered * PieceSize
            ELSE (udc.piecesRegistered + udc.piecesCompleted) * PieceSize

\* Enough pieces completed, the recovery not yet complete and an overdrive
\* piece still registered, the chunk holding exactly their memory, which
\* is less than that of the remaining workers and the completed pieces.
C10_Witness ==
    /\ stage = "active"
    /\ ~udc.recoveryComplete
    /\ udc.piecesCompleted >= MinPieces
    /\ udc.piecesRegistered > 0
    /\ udc.memoryAllocated =
          (udc.piecesRegistered + udc.piecesCompleted) * PieceSize
    /\ udc.workersRemaining > udc.piecesRegistered

(***************************************************************************)
(* C11: registration is exclusive. No two workers fetch the same piece     *)
(* index at the same time, a worker that fetches holds the pieceUsage of   *)
(* its piece, piecesRegistered is the number of workers fetching and never *)
(* exceeds the number of set pieceUsage entries, and markPieceCompleted is *)
(* never invoked twice for the same piece index.                           *)
(***************************************************************************)
C11_RegistrationExclusive ==
    /\ \A a, b \in Workers :
          (a # b /\ workers[a] = "fetching" /\ workers[b] = "fetching")
              => staticChunkMap(a) # staticChunkMap(b)
    /\ \A wk \in Workers :
          workers[wk] = "fetching" => udc.pieceUsage[staticChunkMap(wk)]
    /\ udc.piecesRegistered =
          Cardinality({wk \in Workers : workers[wk] = "fetching"})
    /\ udc.piecesRegistered <= Count(udc.pieceUsage, Pieces)
    /\ \A i \in Pieces : hist.marked[i] <= 1

\* A worker waits on standby because the worker of another host fetches
\* its piece, although the chunk wants more pieces registered; a piece
\* has been marked completed.
C11_Witness ==
    /\ \E a, b \in Workers :
          /\ a # b
          /\ staticChunkMap(a) = staticChunkMap(b)
          /\ workers[a] = "standby"
          /\ workers[b] = "fetching"
    /\ udc.piecesRegistered + udc.piecesCompleted
          < MinPieces + udc.staticOverdrive
    /\ \E i \in Pieces : hist.marked[i] = 1

(***************************************************************************)
(* The locks a task holds.                                                 *)
(***************************************************************************)
Mutexes == {"worker", "udc", "download", "memoryManager"}

\* The mutexes the task holds just before event k of the lock events tr.
Held(tr, k) ==
    {mu \in Mutexes :
        \E j \in 1 .. (k - 1) :
            /\ tr[j].op = "lock"
            /\ tr[j].mu = mu
            /\ \A i \in (j + 1) .. (k - 1) :
                  ~(tr[i].op = "unlock" /\ tr[i].mu = mu)}

(***************************************************************************)
(* C12 as stated: udc.mu is never held while the chunk calls into the      *)
(* memory manager or starts a worker: the Return call of returnMemory and  *)
(* the dispatch of the standby workers come after udc.mu is released.      *)
(***************************************************************************)
C12_AsStated ==
    \A k \in DOMAIN locks :
        locks[k].op \in {"call", "go"} => "udc" \notin Held(locks, k)

\* C12 amended: the standby workers are started only after udc.mu is
\* released, in every managedCleanUp; the Return call of returnMemory is
\* made inside the critical section of managedCleanUp, udc.mu held.
C12_DispatchAfterUnlock ==
    \A k \in DOMAIN locks :
        /\ locks[k].op = "go" => Held(locks, k) = {}
        /\ (locks[k].op = "call" /\ locks[k].by = "returnMemory")
              => Held(locks, k) = {"udc"}

\* A managedCleanUp that returned memory and then started a standby
\* worker.
C12_Witness ==
    \E j, k \in DOMAIN locks :
        /\ j < k
        /\ locks[j] = Call("memoryManager", "returnMemory")
        /\ locks[k] = Go("worker", "managedCleanUp")

(***************************************************************************)
(* C13 as stated: download.mu is never held together with udc.mu: no task  *)
(* takes download.mu while it holds udc.mu, nor udc.mu while it holds      *)
(* download.mu.                                                            *)
(***************************************************************************)
C13_AsStated ==
    \A k \in DOMAIN locks :
        locks[k].op = "lock" =>
            /\ locks[k].mu = "download" => "udc" \notin Held(locks, k)
            /\ locks[k].mu = "udc" => "download" \notin Held(locks, k)

\* C13 amended: udc.mu is never taken while download.mu is held, and
\* managedFinalizeRecovery takes download.mu holding no lock; the
\* managedFail that fail calls takes download.mu while the caller of fail
\* holds udc.mu.
C13_DownloadAfterChunk ==
    \A k \in DOMAIN locks :
        locks[k].op = "lock" =>
            /\ locks[k].mu = "udc" => "download" \notin Held(locks, k)
            /\ (locks[k].mu = "download"
                    /\ locks[k].by = "managedFinalizeRecovery")
                  => Held(locks, k) = {}
            /\ (locks[k].mu = "download" /\ locks[k].by = "managedFail")
                  => Held(locks, k) = {"udc"}

\* threadedRecoverLogicalData failed the chunk after a failed write: fail
\* ran with udc.mu held and managedFail took download.mu.
C13_Witness ==
    /\ Len(locks) > 1
    /\ locks[1] = Lock("udc", "threadedRecoverLogicalData")
    /\ locks[2] = Lock("download", "managedFail")

(***************************************************************************)
(* C14: locks are taken only in the order worker, udc, download, memory    *)
(* manager: whenever a task takes a lock, every lock it holds comes        *)
(* earlier in this order, so no task waits for a lock that is earlier in   *)
(* the order than one it holds.                                            *)
(***************************************************************************)
LockOrder == <<"worker", "udc", "download", "memoryManager">>

LockRank(mu) == CHOOSE r \in DOMAIN LockOrder : LockOrder[r] = mu

C14_LockOrder ==
    \A k \in DOMAIN locks :
        locks[k].op = "lock" =>
            \A h \in Held(locks, k) : LockRank(h) < LockRank(locks[k].mu)

\* A managedCleanUp that failed the chunk and returned its memory: under
\* udc.mu it took download.mu and then the lock of the memory manager.
C14_Witness ==
    \E j, k \in DOMAIN locks :
        /\ j < k
        /\ locks[j] = Lock("download", "managedFail")
        /\ "udc" \in Held(locks, j)
        /\ locks[k] = Lock("memoryManager", "Return")
        /\ "udc" \in Held(locks, k)

(***************************************************************************)
(* C15: progress. With every fetch ending and every worker that is         *)
(* through with the chunk calling managedRemoveWorker, the chunk           *)
(* eventually is failed or recoveryComplete, whichever workers fail; and   *)
(* no state is reached in which the chunk is not terminal, every worker    *)
(* that remains is on standby and no task is left to start them.           *)
(***************************************************************************)
Stalled ==
    /\ stage = "active"
    /\ ~Terminal
    /\ \A wk \in Workers : workers[wk] \in {"standby", "done"}
    /\ recovery \in {"idle", "done"}

C15_Progress ==
    /\ []~Stalled
    /\ <>Terminal

\* The chunk is not terminal, no piece is registered and every other
\* worker is on standby or gone: the managedCleanUp of the one worker
\* that is being removed is all that can start the standby workers.
C15_Witness ==
    /\ stage = "active"
    /\ ~Terminal
    /\ recovery = "idle"
    /\ udc.piecesRegistered = 0
    /\ \E b \in Workers :
          /\ workers[b] = "cleanup"
          /\ \A wk \in Workers \ {b} : workers[wk] \in {"standby", "done"}
          /\ \E a \in Workers : workers[a] = "standby"

(***************************************************************************)
(* C16: when WritePieces returns an error, threadedRecoverLogicalData      *)
(* fails the chunk and, through managedFail, the download;                 *)
(* managedFinalizeRecovery does not run (chunksRemaining is not            *)
(* decremented, markComplete is not called); the error is returned; and    *)
(* the deferred managedCleanUp runs and returns the memory the chunk holds *)
(* above its registered pieces.                                            *)
(***************************************************************************)
WriteFailed ==
    /\ Len(hist.writes) = 1
    /\ ~hist.writes[1].ok

C16_WriteErrorFailsDownload ==
    /\ []((WriteFailed /\ recovery \in {"cleanup", "done"}) =>
            /\ udc.failed
            /\ hist.failCalls = 1
            /\ hist.failErr = "errDestination"
            /\ download.complete
            /\ download.err = "errDestination"
            /\ hist.finalizeCalls = 0
            /\ download.chunksRemaining = 1
            /\ hist.markCompletes = 0
            /\ hist.recoverErr = "errDestination")
    /\ [](WriteFailed => recovery \in {"fail", "cleanup", "done"})
    /\ [][(WriteFailed /\ recovery = "cleanup" /\ recovery' # recovery) =>
            /\ recovery' = "done"
            /\ RecoverCleanUp
            /\ udc'.memoryAllocated = udc'.piecesRegistered * PieceSize
            /\ hist'.returned - hist.returned =
                  udc.memoryAllocated - udc.piecesRegistered * PieceSize]_vars

\* The write failed, threadedRecoverLogicalData returned the error and
\* its managedCleanUp has run; every fetch is over and all the memory is
\* back.
C16_Witness ==
    /\ WriteFailed
    /\ recovery = "done"
    /\ hist.recoverErr = "errDestination"
    /\ download.err = "errDestination"
    /\ udc.piecesRegistered = 0
    /\ udc.memoryAllocated = 0
    /\ hist.returned = hist.requested

Waiting(m, priority) == IF priority = "high" THEN m.high ELSE m.low

CeilDiv(a, b) == (a + b - 1) \div b

C19_RangeArithmetic ==
    range.calls = 1 =>
        LET R == range.rs.minPieces * range.rs.segmentSize
            end == range.fetchOffset + range.fetchLength
        IN  /\ ~range.rs.partial =>
                  /\ range.bytesToRecover = range.chunkSize
                  /\ range.recoveredDataOffset = range.fetchOffset
            /\ range.rs.partial =>
                  /\ range.recoveredDataOffset = range.fetchOffset % R
                  /\ range.bytesToRecover =
                        (CeilDiv(end, R) - (range.fetchOffset \div R)) * R
            /\ (/\ range.rs.partial
                /\ range.rs.segmentSize = 8
                /\ range.rs.minPieces = 3
                /\ range.fetchOffset = 10
                /\ range.fetchLength = 20) =>
                  /\ range.bytesToRecover = 48
                  /\ range.recoveredDataOffset = 10

\* The range [10, 30) under partial encoding with segments of 8 bytes and
\* 3 pieces: two recovered segments, 48 bytes, the range 10 bytes into
\* them.
C19_Witness ==
    /\ range.calls = 1
    /\ range.rs = [partial |-> TRUE, minPieces |-> 3, segmentSize |-> 8]
    /\ range.fetchOffset = 10
    /\ range.fetchLength = 20
    /\ range.bytesToRecover = 48
    /\ range.recoveredDataOffset = 10

(***************************************************************************)
(* C20: the lock state machine of the wallet. In every sequence of calls,  *)
(* on an encrypted wallet Unlock with the master key succeeds exactly when *)
(* the wallet is locked, and otherwise returns errAlreadyUnlocked and      *)
(* leaves it unlocked; Lock succeeds exactly when the wallet is unlocked,  *)
(* and otherwise returns ErrLockedWallet; Unlock with another key on the   *)
(* locked wallet returns ErrBadEncryptionKey and leaves it locked; on a    *)
(* wallet that was never encrypted Lock returns ErrLockedWallet and Unlock *)
(* returns errUnencryptedWallet. The wallet tests pass.                    *)
(***************************************************************************)
\* unlocked after call i of the log.
UnlockedAfter(i) ==
    IF i < Len(wallet.log) THEN wallet.log[i + 1].unlocked
    ELSE wallet.unlocked

C20_WalletLockStateMachine ==
    /\ \A i \in DOMAIN wallet.log :
          LET c == wallet.log[i]
          IN  /\ (c.call = "Unlock" /\ c.encrypted /\ c.key = "masterKey") =>
                    /\ c.err = "nil" <=> ~c.unlocked
                    /\ c.err # "nil" => c.err = "errAlreadyUnlocked"
                    /\ UnlockedAfter(i)
              /\ (c.call = "Lock" /\ c.encrypted) =>
                    /\ c.err = "nil" <=> c.unlocked
                    /\ c.err # "nil" => c.err = "ErrLockedWallet"
                    /\ ~UnlockedAfter(i)
              /\ (c.call = "Unlock" /\ c.encrypted /\ c.key # "masterKey"
                      /\ ~c.unlocked) =>
                    /\ c.err = "ErrBadEncryptionKey"
                    /\ ~UnlockedAfter(i)
              /\ (c.call = "Lock" /\ ~c.encrypted) =>
                    c.err = "ErrLockedWallet"
              /\ (c.call = "Unlock" /\ ~c.encrypted) =>
                    c.err = "errUnencryptedWallet"
              /\ ~c.encrypted => ~UnlockedAfter(i)
    /\ TestPasses(NewWallet, TestIntegrationPreEncryption)
    /\ TestPasses(NewWallet, TestIntegrationBlankEncryption)

\* The wallet was encrypted, unlocked, locked, and then failed to unlock
\* with a wrong key.
C20_Witness ==
    /\ Len(wallet.log) = 4
    /\ wallet.log[2].call = "Unlock" /\ wallet.log[2].err = "nil"
    /\ wallet.log[3].call = "Lock" /\ wallet.log[3].err = "nil"
    /\ wallet.log[4].call = "Unlock"
    /\ wallet.log[4].err = "ErrBadEncryptionKey"
    /\ ~wallet.unlocked

(***************************************************************************)
(* C21: Unlock calls that run at the same time. While one Unlock call      *)
(* holds the scan lock on the locked wallet, every other Unlock call       *)
(* returns errScanInProgress and leaves the wallet as it is; the call that *)
(* holds the scan lock can go on as soon as the wallet's mutex is free,    *)
(* and with the master key it returns nil and unlocks the wallet; so at    *)
(* most one call unlocks the wallet, and exactly one when every call has   *)
(* returned and the call that went first had the master key.               *)
(***************************************************************************)
UnlockCalls == 1 .. MaxUnlockCalls

\* The calls of Unlock that returned nil.
Unlocked == {c \in UnlockCalls : unlocking.calls[c].err = "nil"}

C21_ConcurrentUnlock ==
    /\ [][\A c \in UnlockCalls :
            (/\ unlocking.calls[c].pc = "idle"
             /\ unlocking'.calls[c].pc # "idle"
             /\ \E d \in UnlockCalls : unlocking.calls[d].pc = "scanning")
            => /\ unlocking'.calls[c].pc = "returned"
               /\ unlocking'.calls[c].err = "errScanInProgress"
               /\ wallet' = wallet]_vars
    /\ [][\A c \in UnlockCalls :
            (/\ unlocking.calls[c].pc = "scanning"
             /\ unlocking'.calls[c].pc = "returned"
             /\ unlocking.calls[c].key = "masterKey"
             /\ ~wallet.unlocked)
            => /\ unlocking'.calls[c].err = "nil"
               /\ wallet'.unlocked]_vars
    /\ [](\A c \in UnlockCalls :
            (unlocking.calls[c].pc = "scanning" /\ unlocking.mu # "test")
                => ENABLED UnlockFinish(c))
    /\ [](/\ Cardinality(Unlocked) <= 1
          /\ Cardinality({c \in UnlockCalls :
                             unlocking.calls[c].pc = "scanning"}) <= 1
          /\ wallet.unlocked <=> Cardinality(Unlocked) = 1
          /\ \A c \in UnlockCalls :
                unlocking.calls[c].err = "errAlreadyUnlocked" =>
                    Unlocked # {})

\* TestUnlockConcurrent at its end: the test held the wallet's mutex and
\* released it, one call returned nil, another, made while the first held
\* the scan lock, returned errScanInProgress, and the wallet is unlocked.
C21_Witness ==
    /\ unlocking.mu = "released"
    /\ wallet.unlocked
    /\ \E c, d \in UnlockCalls :
          /\ unlocking.calls[c] =
                [pc |-> "returned", key |-> "masterKey", err |-> "nil"]
          /\ unlocking.calls[d] =
                [pc |-> "returned", key |-> "masterKey",
                 err |-> "errScanInProgress"]
    /\ \A c \in UnlockCalls : unlocking.calls[c].pc = "returned"

(***************************************************************************)
(* C22: managedCleanUp starts the standby workers exactly when the chunk   *)
(* is not failed (once its own failure check has run),                     *)
(* piecesCompleted < MinPieces and                                         *)
(* piecesRegistered < MinPieces + staticOverdrive - piecesCompleted. Then  *)
(* every worker of workersStandby, and no other, is started on the chunk,  *)
(* once, and the list is left empty; in every other case the list is left  *)
(* as it is and no worker is started. The list holds the workers on        *)
(* standby, each once, and only a managedCleanUp takes a worker off it.    *)
(***************************************************************************)
\* The workers that the step starts on the chunk.
Started == {wk \in Workers : workers[wk] # "queued" /\ workers'[wk] = "queued"}

\* The number of worker jobs the step starts.
GoEvents == Cardinality({k \in DOMAIN locks' : locks'[k].op = "go"})

C22_StandbyDispatch ==
    /\ [][CleanUpStep =>
            IF /\ ~udc'.failed
               /\ udc.piecesCompleted < MinPieces
               /\ udc.piecesRegistered <
                      MinPieces + udc.staticOverdrive - udc.piecesCompleted
            THEN /\ udc'.workersStandby = <<>>
                 /\ Started = Range(udc.workersStandby)
                 /\ GoEvents = Len(udc.workersStandby)
            ELSE /\ udc'.workersStandby = udc.workersStandby
                 /\ Started = {}
                 /\ GoEvents = 0]_vars
    /\ [](/\ \A i, j \in DOMAIN udc.workersStandby :
                i # j => udc.workersStandby[i] # udc.workersStandby[j]
          /\ \A wk \in Workers :
                workers[wk] = "standby" <=> wk \in Range(udc.workersStandby))
    /\ [][(\E wk \in Workers :
                workers[wk] = "standby" /\ workers'[wk] # "standby")
            => CleanUpStep]_vars

\* A managedCleanUp has just started two standby workers, after the fetch
\* of a registered piece failed: the list is empty and both are queued.
C22_Witness ==
    /\ Len(locks) >= 2
    /\ locks[Len(locks)].op = "go"
    /\ locks[Len(locks) - 1].op = "go"
    /\ udc.workersStandby = <<>>
    /\ ~udc.failed
    /\ Cardinality({wk \in Workers : workers[wk] = "queued"}) = 2
    /\ \E wk \in Workers : workers[wk] = "done"

(***************************************************************************)
(* C23: the order of a recovery. For every chunk the WritePieces call has  *)
(* returned, without an error, before managedFinalizeRecovery sets         *)
(* recoveryComplete, and recoveryComplete is set before the chunk is       *)
(* counted off chunksRemaining; so when markComplete is called every chunk *)
(* of the download has written its slice to the destination.               *)
(***************************************************************************)
C23_RecoveryOrder ==
    /\ [](\A c \in Chunks :
            /\ (chunks[c].udc.recoveryComplete /\ ~chunks[c].udc.failed)
                  => chunks[c].wrote = 1
            /\ chunks[c].counted > 0 =>
                  (chunks[c].udc.recoveryComplete /\ ~chunks[c].udc.failed))
    /\ [][\A c \in Chunks :
            /\ (/\ ~chunks[c].udc.recoveryComplete
                /\ chunks'[c].udc.recoveryComplete
                /\ ~chunks'[c].udc.failed)
                  => (chunks[c].wrote = 1 /\ chunks[c].counted = 0
                          /\ chunks'[c].counted = 0)
            /\ chunks'[c].counted # chunks[c].counted
                  => chunks[c].udc.recoveryComplete]_vars
    /\ [](hist.markCompletes > 0 => \A c \in Chunks : chunks[c].wrote = 1)

\* Every chunk of the download was recovered and markComplete was called
\* while the managedCleanUp of two recoveries was still to run.
C23_Witness ==
    /\ hist.markCompletes = 1
    /\ download.complete
    /\ download.err = "nil"
    /\ \A c \in Chunks : chunks[c].wrote = 1 /\ chunks[c].counted = 1
    /\ Cardinality({c \in Chunks : chunks[c].recovery = "cleanup"}) >= 2

(***************************************************************************)
(* C24: a download of several chunks whose recoveries finalise in any      *)
(* interleaving. chunksRemaining is the number of chunks less those        *)
(* counted off, never below 0; a chunk is counted off once, exactly when   *)
(* its managedFinalizeRecovery has run; markComplete is called at most     *)
(* once, by the managedFinalizeRecovery that takes chunksRemaining from 1  *)
(* to 0, so exactly once when every chunk is recovered, and never while    *)
(* chunksRemaining > 0 nor when a chunk of the download has failed.        *)
(***************************************************************************)
RECURSIVE Counted(_)
\* The number of times the chunks of S were counted off chunksRemaining.
Counted(S) ==
    IF S = {} THEN 0
    ELSE LET c == CHOOSE x \in S : TRUE
         IN  chunks[c].counted + Counted(S \ {c})

C24_ChunksRemaining ==
    /\ [](/\ download.chunksRemaining >= 0
          /\ download.chunksRemaining = NumChunks - Counted(Chunks)
          /\ \A c \in Chunks :
                /\ chunks[c].counted <= 1
                /\ chunks[c].counted = 1 <=>
                      (/\ chunks[c].udc.recoveryComplete
                       /\ ~chunks[c].udc.failed
                       /\ chunks[c].recovery \in {"cleanup", "done"})
          /\ hist.markCompletes <= 1
          /\ hist.markCompletes = 1 <=> download.chunksRemaining = 0
          /\ hist.markCompletes = 1 =>
                (/\ download.complete
                 /\ download.err = "nil"
                 /\ \A c \in Chunks : ~chunks[c].udc.failed)
          /\ (\E c \in Chunks : chunks[c].udc.failed) =>
                (hist.markCompletes = 0 /\ download.chunksRemaining > 0))
    /\ [][hist'.markCompletes # hist.markCompletes =>
            /\ download.chunksRemaining = 1
            /\ download'.chunksRemaining = 0
            /\ \E c \in Chunks :
                  /\ chunks[c].recovery = "notify"
                  /\ chunks'[c].counted = chunks[c].counted + 1]_vars
    /\ [][download'.chunksRemaining # download.chunksRemaining =>
            /\ download'.chunksRemaining = download.chunksRemaining - 1
            /\ \E c \in Chunks : ChunkFinalizeDownload(c)]_vars

\* Every chunk was recovered and every recovery task has ended:
\* chunksRemaining is 0, markComplete was called once and all of the
\* memory is back.
C24_Witness ==
    /\ download.chunksRemaining = 0
    /\ hist.markCompletes = 1
    /\ hist.finalizeCalls = NumChunks
    /\ \A c \in Chunks : chunks[c].recovery = "done"
    /\ hist.returned = hist.requested

(***************************************************************************)
(* C25: recovery is one-shot. threadedRecoverLogicalData is started at     *)
(* most once for the chunk, by the step that takes piecesCompleted from    *)
(* MinPieces - 1 to MinPieces; a piece that completes afterwards and a     *)
(* managedCleanUp never start it, and the task never returns to its        *)
(* WritePieces call, so the destination is written to at most once.        *)
(***************************************************************************)
C25_RecoveryOneShot ==
    /\ [](/\ hist.recoveries <= 1
          /\ Len(hist.writes) <= 1
          /\ hist.recoveries = 1 <=> udc.piecesCompleted >= MinPieces
          /\ hist.recoveries = 0 <=> recovery = "idle")
    /\ [][hist'.recoveries # hist.recoveries =>
            /\ udc.piecesCompleted = MinPieces - 1
            /\ udc'.piecesCompleted = MinPieces
            /\ recovery = "idle"
            /\ recovery' = "write"]_vars
    /\ [][(recovery' = "write" /\ recovery # "write") =>
            hist'.recoveries # hist.recoveries]_vars
    /\ [][(udc.piecesCompleted >= MinPieces
                /\ udc'.piecesCompleted > udc.piecesCompleted) =>
            /\ hist'.recoveries = hist.recoveries
            /\ hist'.writes = hist.writes
            /\ recovery' = recovery]_vars
    /\ [][CleanUpStep =>
            /\ hist'.recoveries = hist.recoveries
            /\ hist'.writes = hist.writes
            /\ recovery' # "write" \/ recovery = "write"]_vars

\* An overdrive piece completed after the recovery had been started, and
\* every worker and the recovery task have ended after a single write.
C25_Witness ==
    /\ udc.piecesCompleted = MinPieces + 1
    /\ hist.recoveries = 1
    /\ Len(hist.writes) = 1
    /\ recovery = "done"
    /\ \A wk \in Workers : workers[wk] = "done"

(***************************************************************************)
(* C26: managedCleanUp is idempotent. A managedCleanUp called right after  *)
(* a managedCleanUp, no other event between them, leaves the chunk, the    *)
(* download, the memory manager and the workers as the first call left     *)
(* them: it locks and unlocks udc.mu and does nothing else, it does not    *)
(* call fail, returns no memory and starts no worker.                      *)
(***************************************************************************)
\* The state a managedCleanUp would leave if it were called in the state
\* the step leaves.
CleanUpAgain == managedCleanUp(World')

C26_CleanUpIdempotent ==
    [][CleanUpStep =>
        /\ CleanUpAgain.udc = udc'
        /\ CleanUpAgain.download = download'
        /\ CleanUpAgain.mm = mm'
        /\ CleanUpAgain.workers = workers'
        /\ CleanUpAgain.hist = hist'
        /\ CleanUpAgain.locks = <<Lock("udc", "managedCleanUp"),
                                  Unlock("udc", "managedCleanUp")>>]_vars

\* A managedCleanUp has just failed the chunk for want of workers and
\* returned memory while a piece was still being fetched, whose memory
\* the chunk keeps.
C26_Witness ==
    /\ Len(locks) > 0
    /\ locks[1] = Lock("udc", "managedCleanUp")
    /\ \E k \in DOMAIN locks : locks[k] = Lock("download", "managedFail")
    /\ \E k \in DOMAIN locks : locks[k] = Call("memoryManager", "returnMemory")
    /\ udc.failed
    /\ udc.piecesRegistered > 0
    /\ udc.memoryAllocated = udc.piecesRegistered * PieceSize

(***************************************************************************)
(* C27: the overdrive bound. piecesRegistered + piecesCompleted never      *)
(* exceeds MinPieces + staticOverdrive; so whenever                        *)
(* piecesCompleted >= MinPieces, piecesRegistered is at most               *)
(* staticOverdrive, and the memory returnMemory keeps in that case,        *)
(* (piecesCompleted + piecesRegistered) x pieceSize, is within the chunk's *)
(* initial allocation, the part kept for the registered pieces within the  *)
(* share of the overdrive pieces.                                          *)
(***************************************************************************)
C27_OverdriveBound ==
    /\ [](/\ udc.piecesRegistered + udc.piecesCompleted
                <= MinPieces + udc.staticOverdrive
          /\ udc.piecesCompleted >= MinPieces =>
                /\ udc.piecesRegistered <= udc.staticOverdrive
                /\ udc.piecesRegistered * PieceSize <=
                      memoryRequired(udc.staticOverdrive)
                          - MinPieces * PieceSize
                /\ (udc.piecesCompleted + udc.piecesRegistered) * PieceSize
                      <= memoryRequired(udc.staticOverdrive))
    /\ [][(/\ CleanUpStep
           /\ udc'.piecesCompleted >= MinPieces
           /\ ~udc'.recoveryComplete) =>
            /\ udc'.memoryAllocated =
                  (udc'.piecesCompleted + udc'.piecesRegistered) * PieceSize
            /\ udc'.memoryAllocated <= memoryRequired(udc.staticOverdrive)]_vars

\* MinPieces pieces completed while the overdrive piece is still being
\* fetched and a worker waits on standby: the chunk holds its whole
\* allocation, the recovery is about to write.
C27_Witness ==
    /\ udc.staticOverdrive = MaxOverdrive
    /\ udc.piecesCompleted = MinPieces
    /\ udc.piecesRegistered = udc.staticOverdrive
    /\ recovery = "write"
    /\ udc.workersStandby # <<>>
    /\ udc.memoryAllocated = memoryRequired(udc.staticOverdrive)

ChunkLockers ==
    {"managedCleanUp", "managedRemoveWorker", "managedFinalizeRecovery",
     "threadedRecoverLogicalData"}

\* The lock event that took the mutex which event k of tr unlocks.
LockedAt(tr, k) ==
    CHOOSE j \in 0 .. (k - 1) :
        /\ j > 0 => (tr[j].op = "lock" /\ tr[j].mu = tr[k].mu)
        /\ \A i \in (j + 1) .. (k - 1) :
              ~(tr[i].op = "lock" /\ tr[i].mu = tr[k].mu)

C29_ChunkLockReleased ==
    /\ Held(locks, Len(locks) + 1) = {}
    /\ \A k \in DOMAIN locks :
          /\ (locks[k].op = "lock" /\ locks[k].mu = "udc")
                => "udc" \notin Held(locks, k)
          /\ locks[k].op = "unlock" =>
                /\ locks[k].mu \in Held(locks, k)
                /\ LockedAt(locks, k) > 0
                /\ locks[LockedAt(locks, k)].by = locks[k].by
    /\ \A k \in DOMAIN locks :
          (locks[k].mu = "udc" /\ locks[k].op = "lock") =>
              /\ locks[k].by \in ChunkLockers \cup {"worker"}
              /\ \E j \in (k + 1) .. Len(locks) :
                    locks[j] = Unlock("udc", locks[k].by)

\* The deferred managedCleanUp of a threadedRecoverLogicalData whose write
\* failed has just run: it found the chunk failed, returned the memory and
\* left by the failed exit, udc.mu released.
C29_Witness ==
    /\ recovery = "done"
    /\ hist.recoverErr = "errDestination"
    /\ udc.failed
    /\ Len(locks) > 2
    /\ locks[1] = Lock("udc", "managedCleanUp")
    /\ locks[2] = Call("memoryManager", "returnMemory")
    /\ locks[Len(locks)] = Unlock("udc", "managedCleanUp")
    /\ \A wk \in Workers : workers[wk] = "done"

(***************************************************************************)
(* C30: the requested slice lies inside the recovered bytes. For every     *)
(* fetch range with fetchOffset + fetchLength <= chunkSize, with or        *)
(* without partial encoding,                                               *)
(* recoveredDataOffset + fetchLength <= bytesToRecover; with partial       *)
(* encoding recoveredDataOffset is less than MinPieces x segmentSize and   *)
(* bytesToRecover is a multiple of it.                                     *)
(***************************************************************************)
C30_SliceInsideRecovered ==
    (range.calls = 1
        /\ range.fetchOffset + range.fetchLength <= range.chunkSize) =>
        LET R == range.rs.minPieces * range.rs.segmentSize
        IN  /\ range.recoveredDataOffset >= 0
            /\ range.recoveredDataOffset + range.fetchLength
                  <= range.bytesToRecover
            /\ range.rs.partial =>
                  /\ range.recoveredDataOffset < R
                  /\ range.bytesToRecover % R = 0
                  /\ range.bytesToRecover >= 0

\* Under partial encoding a range that starts inside a later recovered
\* segment and ends on the last byte of another: the slice ends with the
\* last recovered byte.
C30_Witness ==
    /\ range.calls = 1
    /\ range.rs.partial
    /\ range.fetchOffset >= range.rs.minPieces * range.rs.segmentSize
    /\ range.recoveredDataOffset > 0
    /\ range.bytesToRecover > range.rs.minPieces * range.rs.segmentSize
    /\ range.recoveredDataOffset + range.fetchLength = range.bytesToRecover
    /\ range.fetchOffset + range.fetchLength <= range.chunkSize

====
